---- MODULE Spec2Model ----
(***************************************************************************)
(* TrainerAI backend: the AI workout generation pipeline.                  *)
(*                                                                         *)
(*   backend/app/schemas/ai_workout.py  _extract_first_int, SetPrescription *)
(*                                      (normalize_set,                    *)
(*                                      validate_reps_or_seconds),         *)
(*                                      BlockExercise, WorkoutBlock,       *)
(*                                      AIWorkoutPlan                      *)
(*   backend/app/core/ai_client.py      get_gemini_model,                  *)
(*                                      generate_workout_plan              *)
(*   backend/app/api/v1/workouts.py     generate_workout                   *)
(*   backend/app/api/v1/exercises.py    create_exercise, update_exercise,  *)
(*                                      delete_exercise,                   *)
(*                                      seed_default_exercises             *)
(*   backend/app/services/              seed_default_exercises_for_trainer,*)
(*                                      seed_global_exercises              *)
(*                                                                         *)
(* Text is a sequence of one-character strings.  A JSON / Python value is  *)
(* a record [t, i, d, s]: t is the type tag, i/d the numerator and         *)
(* denominator of a number (d = 1 for an int), s the characters of a str.  *)
(***************************************************************************)
EXTENDS Integers, Sequences, FiniteSets, TLC

(***************************************************************************)
(* Python values                                                           *)
(***************************************************************************)
PyNone == [t |-> "none", i |-> 0, d |-> 1, s |-> <<>>]
PyInt(n) == [t |-> "int", i |-> n, d |-> 1, s |-> <<>>]
\* the finite float num/den
PyFloat(num, den) == [t |-> "float", i |-> num, d |-> den, s |-> <<>>]
PyStr(chars) == [t |-> "str", i |-> 0, d |-> 1, s |-> chars]
\* a non-empty list or dict: neither None, a number nor a string
PyOther == [t |-> "other", i |-> 0, d |-> 1, s |-> <<>>]

\* Python truthiness, as used by `x or ""` and `if x`
Truthy(v) ==
    CASE v.t = "none" -> FALSE
      [] v.t = "int" -> v.i # 0
      [] v.t = "float" -> v.i # 0
      [] v.t = "str" -> Len(v.s) > 0
      [] OTHER -> TRUE

(***************************************************************************)
(* str methods used by the code                                            *)
(***************************************************************************)
Digits == {"0", "1", "2", "3", "4", "5", "6", "7", "8", "9"}

DigitVal(c) ==
    CASE c = "0" -> 0 [] c = "1" -> 1 [] c = "2" -> 2 [] c = "3" -> 3
      [] c = "4" -> 4 [] c = "5" -> 5 [] c = "6" -> 6 [] c = "7" -> 7
      [] c = "8" -> 8 [] c = "9" -> 9

Whitespace == {" ", "\n", "\t"}

UpperToLower ==
    [c \in {"A", "B", "C", "D", "E", "F", "G", "H", "I", "J", "K", "L", "M",
            "N", "O", "P", "Q", "R", "S", "T", "U", "V", "W", "X", "Y", "Z"} |->
        CASE c = "A" -> "a" [] c = "B" -> "b" [] c = "C" -> "c" [] c = "D" -> "d"
          [] c = "E" -> "e" [] c = "F" -> "f" [] c = "G" -> "g" [] c = "H" -> "h"
          [] c = "I" -> "i" [] c = "J" -> "j" [] c = "K" -> "k" [] c = "L" -> "l"
          [] c = "M" -> "m" [] c = "N" -> "n" [] c = "O" -> "o" [] c = "P" -> "p"
          [] c = "Q" -> "q" [] c = "R" -> "r" [] c = "S" -> "s" [] c = "T" -> "t"
          [] c = "U" -> "u" [] c = "V" -> "v" [] c = "W" -> "w" [] c = "X" -> "x"
          [] c = "Y" -> "y" [] c = "Z" -> "z"]

\* str.lower()
Lower(str) ==
    [k \in 1..Len(str) |->
        IF str[k] \in DOMAIN UpperToLower THEN UpperToLower[str[k]] ELSE str[k]]

\* str.strip(): leading and trailing whitespace removed
Strip(str) ==
    LET keep == {k \in 1..Len(str) : str[k] \notin Whitespace}
    IN  IF keep = {} THEN <<>>
        ELSE LET lo == CHOOSE k \in keep : \A m \in keep : k <= m
                 hi == CHOOSE k \in keep : \A m \in keep : k >= m
             IN  SubSeq(str, lo, hi)

\* str.startswith(prefix)
StartsWith(str, prefix) ==
    /\ Len(prefix) <= Len(str)
    /\ SubSeq(str, 1, Len(prefix)) = prefix

\* str.endswith(suffix)
EndsWith(str, suffix) ==
    /\ Len(suffix) <= Len(str)
    /\ SubSeq(str, Len(str) - Len(suffix) + 1, Len(str)) = suffix

\* `sub in str`
Contains(str, sub) ==
    \E k \in 0..(Len(str) - Len(sub)) : SubSeq(str, k + 1, k + Len(sub)) = sub

\* int() of a run of decimal digits
RECURSIVE DecimalValue(_)
DecimalValue(run) ==
    IF Len(run) = 0 THEN 0
    ELSE 10 * DecimalValue(SubSeq(run, 1, Len(run) - 1)) + DigitVal(run[Len(run)])

\* re.search(r"(\d+)", s): the leftmost match, extended greedily; <<>> when
\* there is no match
FirstDigitRun(str) ==
    LET at == {k \in 1..Len(str) : str[k] \in Digits}
    IN  IF at = {} THEN <<>>
        ELSE LET lo == CHOOSE k \in at : \A m \in at : k <= m
                 ends == {k \in lo..Len(str) : \A m \in lo..k : str[m] \in Digits}
                 hi == CHOOSE k \in ends : \A m \in ends : k >= m
             IN  SubSeq(str, lo, hi)

(***************************************************************************)
(* _extract_first_int                                                      *)
(***************************************************************************)
\* int(value) of a float: the fractional part is discarded
IntOfFloatFloor(num, den) == num \div den

IntOfFloat(num, den) ==
    IF num >= 0 THEN num \div den ELSE -((-num) \div den)

ExtractFromStr(chars) ==
    LET str == Lower(Strip(chars))
        run == FirstDigitRun(str)
    IN  IF Len(run) > 0 THEN PyInt(DecimalValue(run)) ELSE PyNone

_extract_first_int(value) ==
    CASE value.t = "none" -> PyNone
      [] value.t = "int" -> value
      [] value.t = "float" -> PyInt(IntOfFloat(value.i, value.d))
      [] value.t = "str" -> ExtractFromStr(value.s)
      [] OTHER -> PyNone

(***************************************************************************)
(* SetPrescription: a raw set is the dict handed to normalize_set; a key   *)
(* that is absent reads as None (data.get).                                *)
(***************************************************************************)
RawSet(reps, seconds, weight, notes, reps_text) ==
    [reps |-> reps, seconds |-> seconds, weight |-> weight, notes |-> notes,
     reps_text |-> reps_text]

S_sec == <<"s", "e", "c">>
S_second == <<"s", "e", "c", "o", "n", "d">>

\* keywords = ["amrap", "to failure", "failure", "as many", "until", "max"]
Keywords ==
    { <<"a", "m", "r", "a", "p">>,
      <<"t", "o", " ", "f", "a", "i", "l", "u", "r", "e">>,
      <<"f", "a", "i", "l", "u", "r", "e">>,
      <<"a", "s", " ", "m", "a", "n", "y">>,
      <<"u", "n", "t", "i", "l">>,
      <<"m", "a", "x">> }

\* notes = (data.get("notes") or "")
NotesOrEmpty(data) == IF Truthy(data.notes) THEN data.notes ELSE PyStr(<<>>)

\* the outcome of normalize_set: the rewritten dict, or the exception that
\* leaves the validator (notes.lower() on a value that is not a str)
Normalized(data) == [raised |-> "", data |-> data]
NormalizeRaised(kind, data) == [raised |-> kind, data |-> data]

\* lines 85-97 with the reps string stored as it came, not stripped
TextualPrescriptionVerbatim(data, notes, inferred) ==
    IF data.reps.t = "str" /\ Len(Strip(data.reps.s)) > 0
    THEN Normalized([data EXCEPT !.reps_text = data.reps,
                                 !.reps = PyNone, !.seconds = PyNone])
    ELSE IF notes.t # "str"
    THEN NormalizeRaised("AttributeError", data)
    ELSE IF (\E k \in Keywords : Contains(Lower(notes.s), k)) \/ inferred.t # "none"
    THEN Normalized([data EXCEPT
             !.reps_text = IF Len(Strip(notes.s)) > 0 THEN PyStr(Strip(notes.s))
                           ELSE PyNone,
             !.reps = PyNone, !.seconds = PyNone])
    ELSE Normalized([data EXCEPT !.reps = PyNone, !.seconds = PyNone])

\* lines 85-97: no numeric reps/seconds could be found
TextualPrescription(data, notes, inferred) ==
    IF data.reps.t = "str" /\ Len(Strip(data.reps.s)) > 0
    THEN Normalized([data EXCEPT !.reps_text = PyStr(Strip(data.reps.s)),
                                 !.reps = PyNone, !.seconds = PyNone])
    ELSE IF notes.t # "str"
    THEN NormalizeRaised("AttributeError", data)
    ELSE IF (\E k \in Keywords : Contains(Lower(notes.s), k)) \/ inferred.t # "none"
    THEN Normalized([data EXCEPT
             !.reps_text = IF Len(Strip(notes.s)) > 0 THEN PyStr(Strip(notes.s))
                           ELSE PyNone,
             !.reps = PyNone, !.seconds = PyNone])
    ELSE Normalized([data EXCEPT !.reps = PyNone, !.seconds = PyNone])

\* lines 73-83 with "sec" looked for in the notes as written, not lowered
InferFromNotesCased(data) ==
    LET notes == NotesOrEmpty(data)
        inferred == _extract_first_int(notes)
    IN  IF inferred.t # "none"
        THEN IF notes.t # "str"
             THEN NormalizeRaised("AttributeError", data)
             ELSE IF Contains(notes.s, S_sec) \/ Contains(notes.s, S_second)
                  THEN Normalized([data EXCEPT !.reps = PyNone, !.seconds = inferred])
                  ELSE Normalized([data EXCEPT !.reps = inferred, !.seconds = PyNone])
        ELSE TextualPrescription(data, notes, inferred)

\* lines 73-83: reps and seconds both missing, infer from notes
InferFromNotes(data) ==
    LET notes == NotesOrEmpty(data)
        inferred == _extract_first_int(notes)
    IN  IF inferred.t # "none"
        THEN IF notes.t # "str"
             THEN NormalizeRaised("AttributeError", data)
             ELSE IF Contains(Lower(notes.s), S_sec) \/ Contains(Lower(notes.s), S_second)
                  THEN Normalized([data EXCEPT !.reps = PyNone, !.seconds = inferred])
                  ELSE Normalized([data EXCEPT !.reps = inferred, !.seconds = PyNone])
        ELSE TextualPrescription(data, notes, inferred)

\* the notes are consulted as soon as one of reps and seconds is missing
normalize_set_either(data) ==
    IF _extract_first_int(data.reps).t = "none"
           \/ _extract_first_int(data.seconds).t = "none"
    THEN InferFromNotes(data)
    ELSE Normalized([data EXCEPT !.reps = _extract_first_int(data.reps),
                                 !.seconds = _extract_first_int(data.seconds)])

\* a reps string that yields a number is kept as the fallback text as well
normalize_set_keeping_text(data) ==
    LET reps_val == _extract_first_int(data.reps)
        seconds_val == _extract_first_int(data.seconds)
    IN  IF reps_val.t = "none" /\ seconds_val.t = "none"
        THEN InferFromNotes(data)
        ELSE Normalized([data EXCEPT !.reps = reps_val, !.seconds = seconds_val,
                                     !.reps_text = IF data.reps.t = "str"
                                                   THEN PyStr(Strip(data.reps.s)) ELSE @])

\* SetPrescription.normalize_set (mode="before")
normalize_set(data) ==
    LET reps_val == _extract_first_int(data.reps)
        seconds_val == _extract_first_int(data.seconds)
    IN  IF reps_val.t = "none" /\ seconds_val.t = "none"
        THEN InferFromNotes(data)
        ELSE Normalized([data EXCEPT !.reps = reps_val, !.seconds = seconds_val])

(***************************************************************************)
(* pydantic field validation (lax mode) of the declared field types        *)
(***************************************************************************)
AllDigits(chars) == Len(chars) > 0 /\ \A k \in 1..Len(chars) : chars[k] \in Digits

\* Optional[int]: None, an int, a float without fractional part, a string
\* of decimal digits
OptionalIntOk(v) ==
    CASE v.t = "none" -> TRUE
      [] v.t = "int" -> TRUE
      [] v.t = "float" -> v.i % v.d = 0
      [] v.t = "str" -> AllDigits(v.s)
      [] OTHER -> FALSE

OptionalIntValue(v) ==
    CASE v.t = "float" -> PyInt(v.i \div v.d)
      [] v.t = "str" -> PyInt(DecimalValue(v.s))
      [] OTHER -> v

\* Optional[str]: None or a str, nothing is coerced to str
OptionalStrOk(v) == v.t \in {"none", "str"}

FieldsOk(data) ==
    /\ OptionalIntOk(data.reps)
    /\ OptionalIntOk(data.seconds)
    /\ OptionalIntOk(data.weight)
    /\ OptionalStrOk(data.notes)
    /\ OptionalStrOk(data.reps_text)

Coerced(data) ==
    [data EXCEPT !.reps = OptionalIntValue(data.reps),
                 !.seconds = OptionalIntValue(data.seconds),
                 !.weight = OptionalIntValue(data.weight)]

\* the after-validator accepting every set
validate_reps_or_seconds_any(set) == TRUE

\* SetPrescription.validate_reps_or_seconds (mode="after"): TRUE when the
\* set is accepted
validate_reps_or_seconds(set) ==
    ~(set.reps.t = "none" /\ set.seconds.t = "none" /\ ~Truthy(set.reps_text))

NoSet == RawSet(PyNone, PyNone, PyNone, PyNone, PyNone)

\* the model keeping the keys it does not declare (extra="allow")
SetFieldsAndExtras(data) == data

\* model_config = ConfigDict(extra="ignore"): the model is built from the
\* declared fields, the other keys of the dict are left behind
SetFields(data) ==
    RawSet(data.reps, data.seconds, data.weight, data.notes, data.reps_text)

SetOk(set) == [ok |-> TRUE, err |-> "", set |-> set]
SetFailed(kind) == [ok |-> FALSE, err |-> kind, set |-> NoSet]

\* SetPrescription.model_validate(data): before-validator, field
\* validation, after-validator
ValidateSet(data) ==
    LET n == normalize_set(data)
    IN  IF n.raised # "" THEN SetFailed(n.raised)
        ELSE IF ~FieldsOk(n.data) THEN SetFailed("ValidationError")
        ELSE IF ~validate_reps_or_seconds(Coerced(n.data))
        THEN SetFailed("ValidationError")
        ELSE SetOk(SetFields(Coerced(n.data)))

(***************************************************************************)
(* BlockExercise, WorkoutBlock, AIWorkoutPlan                              *)
(***************************************************************************)
\* SubsetType and BlockType (typing.Literal)
SubsetType == {"upper", "lower", "core", "full_body", "conditioning"}
\* the Literal with one more member
BlockTypeWithTriset == {"straight", "superset", "circuit", "triset"}

BlockType == {"straight", "superset", "circuit"}

RawExercise(exercise_id, sets) == [exercise_id |-> exercise_id, sets |-> sets]
RawBlock(block_type, rest_seconds, exercises) ==
    [block_type |-> block_type, rest_seconds |-> rest_seconds, exercises |-> exercises]
RawPlan(name, focus_subsets, muscles_targeted, blocks) ==
    [name |-> name, focus_subsets |-> focus_subsets,
     muscles_targeted |-> muscles_targeted, blocks |-> blocks]

NoPlan == RawPlan(PyNone, <<>>, <<>>, <<>>)

\* what json.loads returned: a dict with the plan's keys ("plan"), a dict
\* without them ({"a": n}, "obj") or a number ("num")
JsonPlan(plan) == [kind |-> "plan", n |-> 0, plan |-> plan]
JsonObj(n) == [kind |-> "obj", n |-> n, plan |-> NoPlan]
JsonNum(n) == [kind |-> "num", n |-> n, plan |-> NoPlan]
NoJson == [kind |-> "none", n |-> 0, plan |-> NoPlan]

\* every raw set of a raw plan, by position
SetIndex(plan) ==
    UNION { UNION { {<<b, e, k>> : k \in 1..Len(plan.blocks[b].exercises[e].sets)} :
                    e \in 1..Len(plan.blocks[b].exercises) } :
            b \in 1..Len(plan.blocks) }

SetAt(plan, at) == plan.blocks[at[1]].exercises[at[2]].sets[at[3]]

\* list[SetPrescription]: every item validated, in order
ValidateExercise(ex) ==
    [exercise_id |-> ex.exercise_id,
     sets |-> [k \in 1..Len(ex.sets) |-> ValidateSet(ex.sets[k]).set]]

\* a variant that leaves the rejected sets out of the list
RECURSIVE KeepValidSets(_)
KeepValidSets(sets) ==
    IF Len(sets) = 0 THEN <<>>
    ELSE LET r == ValidateSet(Head(sets))
         IN  IF r.ok THEN <<r.set>> \o KeepValidSets(Tail(sets))
             ELSE KeepValidSets(Tail(sets))

ValidateBlock(block) ==
    [block_type |-> block.block_type,
     rest_seconds |-> OptionalIntValue(block.rest_seconds),
     exercises |-> [e \in 1..Len(block.exercises) |->
                        ValidateExercise(block.exercises[e])]]

\* the field checks of the three models, the sets' own validation aside
ShapeOk(plan) ==
    /\ plan.name.t = "str"
    /\ \A k \in 1..Len(plan.focus_subsets) : plan.focus_subsets[k] \in SubsetType
    /\ \A b \in 1..Len(plan.blocks) :
          /\ plan.blocks[b].block_type \in BlockType
          /\ plan.blocks[b].rest_seconds.t # "none"
          /\ OptionalIntOk(plan.blocks[b].rest_seconds)
          /\ \A e \in 1..Len(plan.blocks[b].exercises) :
                plan.blocks[b].exercises[e].exercise_id.t = "str"

PlanOk(plan) == [ok |-> TRUE, err |-> "", plan |-> plan]
PlanFailed(kind) == [ok |-> FALSE, err |-> kind, plan |-> NoPlan]

\* the plan is returned with its invalid sets dropped
ValidatePlanDropping(doc) ==
    IF doc.kind # "plan" \/ ~ShapeOk(doc.plan) THEN PlanFailed("ValidationError")
    ELSE PlanOk([doc.plan EXCEPT !.blocks =
            [b \in 1..Len(doc.plan.blocks) |->
                [ValidateBlock(doc.plan.blocks[b]) EXCEPT !.exercises =
                    [e \in 1..Len(doc.plan.blocks[b].exercises) |->
                        [exercise_id |-> doc.plan.blocks[b].exercises[e].exercise_id,
                         sets |-> KeepValidSets(doc.plan.blocks[b].exercises[e].sets)]]]]])

\* AIWorkoutPlan.model_validate(raw_plan): an exception other than
\* ValueError raised inside a validator leaves model_validate as it is;
\* every other failure is collected into one ValidationError
ValidatePlan(doc) ==
    IF doc.kind # "plan" THEN PlanFailed("ValidationError")
    ELSE IF \E at \in SetIndex(doc.plan) :
                ValidateSet(SetAt(doc.plan, at)).err = "AttributeError"
    THEN PlanFailed("AttributeError")
    ELSE IF ~ShapeOk(doc.plan) \/ \E at \in SetIndex(doc.plan) :
                                      ~ValidateSet(SetAt(doc.plan, at)).ok
    THEN PlanFailed("ValidationError")
    ELSE PlanOk(RawPlan(doc.plan.name, doc.plan.focus_subsets,
                        doc.plan.muscles_targeted,
            [b \in 1..Len(doc.plan.blocks) |-> ValidateBlock(doc.plan.blocks[b])]))

\* a value of a validated model written as JSON (model_dump_json) and read
\* back (json.loads): an int as a JSON number, a str as a JSON string, None
\* as null
JsonRoundTrip(v) ==
    CASE v.t = "int" -> PyInt(v.i)
      [] v.t = "str" -> PyStr(v.s)
      [] OTHER -> PyNone

\* SetPrescription serialized and read back: the five declared fields
DumpSet(set) ==
    RawSet(JsonRoundTrip(set.reps), JsonRoundTrip(set.seconds),
           JsonRoundTrip(set.weight), JsonRoundTrip(set.notes),
           JsonRoundTrip(set.reps_text))

\* AIWorkoutPlan serialized and read back
DumpPlan(plan) ==
    RawPlan(JsonRoundTrip(plan.name), plan.focus_subsets, plan.muscles_targeted,
        [b \in 1..Len(plan.blocks) |->
            RawBlock(plan.blocks[b].block_type,
                     JsonRoundTrip(plan.blocks[b].rest_seconds),
                [e \in 1..Len(plan.blocks[b].exercises) |->
                    RawExercise(JsonRoundTrip(plan.blocks[b].exercises[e].exercise_id),
                        [k \in 1..Len(plan.blocks[b].exercises[e].sets) |->
                            DumpSet(plan.blocks[b].exercises[e].sets[k])])])])

(***************************************************************************)
(* generate_workout_plan (core/ai_client.py)                               *)
(***************************************************************************)
\* the grave accent (U+0060), the character of a code fence
Tick == "tick"
Fence == <<Tick, Tick, Tick>>
FenceJson == <<Tick, Tick, Tick, "j", "s", "o", "n">>

\* raw_snippet = raw_text[:500] if len(raw_text) > 500 else raw_text
SnippetCap == 500

\* the symbol that stands for the JSON serialization of the plan payload
\* the model produced
PlanText == "<plan>"

\* lines 53-61: the code fences and the surrounding whitespace removed
StripFences(raw_text) ==
    LET opened == IF StartsWith(raw_text, FenceJson)
                  THEN SubSeq(raw_text, 8, Len(raw_text))
                  ELSE IF StartsWith(raw_text, Fence)
                  THEN SubSeq(raw_text, 4, Len(raw_text))
                  ELSE raw_text
        closed == IF EndsWith(opened, Fence)
                  THEN SubSeq(opened, 1, Len(opened) - 3)
                  ELSE opened
    IN  Strip(closed)

\* a JSON integer literal: no sign or one "-", no leading zero
IsIntLiteral(chars) ==
    LET digits == IF Len(chars) > 0 /\ chars[1] = "-" THEN Tail(chars) ELSE chars
    IN  AllDigits(digits) /\ (Len(digits) = 1 \/ digits[1] # "0")

IntLiteralValue(chars) ==
    IF chars[1] = "-" THEN -DecimalValue(Tail(chars)) ELSE DecimalValue(chars)

\* the text of the object {"a": <int>}, without the integer
ObjOpen == <<"{", "\"", "a", "\"", ":">>

IsObjText(chars) ==
    /\ StartsWith(chars, ObjOpen)
    /\ EndsWith(chars, <<"}">>)
    /\ IsIntLiteral(Strip(SubSeq(chars, Len(ObjOpen) + 1, Len(chars) - 1)))

Parsed(value) == [ok |-> TRUE, value |-> value]
JSONDecodeError == [ok |-> FALSE, value |-> NoJson]

\* json.loads(raw_text) on the documents of the model: an integer, the
\* object {"a": <int>}, or the serialized plan payload; whitespace around
\* the document is allowed, anything else is a JSONDecodeError
JsonLoads(raw_text, payload) ==
    LET doc == Strip(raw_text)
    IN  IF doc = <<PlanText>> THEN Parsed(JsonPlan(payload))
        ELSE IF IsIntLiteral(doc) THEN Parsed(JsonNum(IntLiteralValue(doc)))
        ELSE IF IsObjText(doc)
        THEN Parsed(JsonObj(IntLiteralValue(
                 Strip(SubSeq(doc, Len(ObjOpen) + 1, Len(doc) - 1)))))
        ELSE JSONDecodeError

\* exceptions: the class, the message and, for the JSON error, the snippet
\* put after the parser's diagnostic
NoExc == [type |-> "", msg |-> "", diag |-> "", snippet |-> <<>>]
Exc(type, msg) == [type |-> type, msg |-> msg, diag |-> "", snippet |-> <<>>]
InvalidJson(snippet) ==
    [type |-> "RuntimeError", msg |-> "Invalid JSON from Gemini",
     diag |-> "JSONDecodeError", snippet |-> snippet]

\* line 68, without the cap
SnippetUncut(raw_text) == raw_text

Snippet(raw_text) ==
    IF Len(raw_text) > SnippetCap THEN SubSeq(raw_text, 1, SnippetCap) ELSE raw_text

\* what the external library does with the call (get_gemini_model,
\* model.generate_content, result.text): it raises an exception of class
\* `raises`, or returns `text`, the payload being what PlanText stands for
External(raises, text, payload) ==
    [raises |-> raises, text |-> text, payload |-> payload]
NoExternal == External("", <<>>, NoPlan)

\* the classes of exception the library can raise: a ValueError (the
\* result.text accessor of a response without a valid part), a RuntimeError,
\* or any other subclass of Exception (API errors, credential errors,
\* timeouts)
ExternalExcTypes == {"ValueError", "RuntimeError", "Exception"}

Returned(value) == [exc |-> NoExc, value |-> value]
Raised(exc) == [exc |-> exc, value |-> NoJson]

\* lines 71-80: the except clauses of generate_workout_plan
\* (the last clause missing: the exception leaves as it is)
ReraiseUnmapped(type) == Raised(Exc(type, "external"))

Reraise(type) ==
    IF type \in {"ValueError", "RuntimeError"}
    THEN Raised(Exc(type, "external"))
    ELSE Raised(Exc("RuntimeError", "Unexpected Gemini error"))

\* generate_workout_plan(prompt), given what the library did
generate_workout_plan(ext) ==
    IF ext.raises # "" THEN Reraise(ext.raises)
    ELSE LET raw_text == StripFences(ext.text)
             doc == JsonLoads(raw_text, ext.payload)
         IN  IF doc.ok THEN Returned(doc.value)
             ELSE Raised(InvalidJson(Snippet(raw_text)))

(***************************************************************************)
(* generate_workout (api/v1/workouts.py) and the exception handlers of     *)
(* main.py                                                                 *)
(***************************************************************************)
Http(status, detail, exc, plan) ==
    [status |-> status, detail |-> detail, diag |-> exc.diag,
     snippet |-> exc.snippet, plan |-> plan]
NoResponse == Http(0, "", NoExc, NoPlan)

\* lines 351-364 with the validation failure reported under the message of
\* a generation failure
ValidateAndRespondAsGeneration(raw_plan) ==
    LET v == ValidatePlan(raw_plan)
    IN  IF v.ok THEN Http(200, "", NoExc, v.plan)
        ELSE Http(502, "Unexpected Gemini error", NoExc, NoPlan)

\* lines 351-364: AIWorkoutPlan.model_validate(raw_plan) and the response
ValidateAndRespond(raw_plan) ==
    LET v == ValidatePlan(raw_plan)
    IN  IF v.ok THEN Http(200, "", NoExc, v.plan)
        ELSE Http(502, "Generated workout plan failed validation", NoExc, NoPlan)

\* lines 341-364, given the outcome of generate_workout_plan; an exception
\* that is neither a ValueError nor a RuntimeError leaves the endpoint and
\* is answered by general_exception_handler (main.py)
RespondToPlan(g) ==
    CASE g.exc.type = "" -> ValidateAndRespond(g.value)
      [] g.exc.type = "ValueError" -> Http(500, g.exc.msg, g.exc, NoPlan)
      [] g.exc.type = "RuntimeError" -> Http(502, g.exc.msg, g.exc, NoPlan)
      [] OTHER -> Http(500, "Internal server error", g.exc, NoPlan)

\* where the request goes after a failed generation: no loop around the
\* call, the HTTPException ends the request
\* (a retry: the call is made again)
RetryAfterFailure == "awaiting"

AfterFailure == "done"

(***************************************************************************)
(* generate_workout: the catalog query and the prompt (workouts.py         *)
(* 184-339).  The prompt is a sequence of lines, a line a sequence of      *)
(* pieces of text: the literal parts of the f-strings and the values put   *)
(* between them.                                                           *)
(***************************************************************************)
\* the exercise names of the model, in the collation order of the database
ExerciseNames == <<"Bench", "Curl">>

NameRank(name) == CHOOSE k \in 1..Len(ExerciseNames) : ExerciseNames[k] = name

\* what the query of lines 185-200 can return for the rows that pass its
\* filter: every row once (.unique()), ordered by name; the order of rows
\* with equal names is the database's choice
SortedListings(rows) ==
    {l \in [1..Cardinality(rows) -> rows] :
        /\ \A i \in DOMAIN l, j \in DOMAIN l : i # j => l[i] # l[j]
        /\ \A i \in DOMAIN l, j \in DOMAIN l :
              i < j => NameRank(l[i].name) <= NameRank(l[j].name)}

\* muscle_name_to_subset
muscle_name_to_subset ==
    [m \in {"Shoulders", "Chest", "Tricep", "Bicep", "Back", "Quads", "Hamstring",
            "Glutes", "Lower Abs", "Upper Abs", "Obliques"} |->
        CASE m \in {"Shoulders", "Chest", "Tricep", "Bicep", "Back"} -> "upper"
          [] m \in {"Quads", "Hamstring", "Glutes"} -> "lower"
          [] OTHER -> "core"]

\* str.title() on the muscle names of the model
Title(muscle_name) == IF muscle_name = "chest" THEN "Chest" ELSE muscle_name

\* lines 228-235: exact match first, then the title-cased name, else unknown
SubsetOf(muscle_name) ==
    IF muscle_name \in DOMAIN muscle_name_to_subset
    THEN muscle_name_to_subset[muscle_name]
    ELSE IF Title(muscle_name) \in DOMAIN muscle_name_to_subset
    THEN muscle_name_to_subset[Title(muscle_name)]
    ELSE "unknown"

\* ', '.join(items)
RECURSIVE Join(_)
Join(items) ==
    IF Len(items) = 0 THEN <<>>
    ELSE IF Len(items) = 1 THEN <<items[1]>>
    ELSE <<items[1], ", ">> \o Join(Tail(items))

\* the line of an exercise always carries its tags part
ExerciseLineAlwaysTags(ex) ==
    <<"- id: ", ex.id, ", name: ", ex.name, ", subset: ", SubsetOf(ex.primary_muscle),
      ", ", "primary_muscle_id: ", "<primary_muscle_id>", ", ",
      "movement_pattern: ", "<movement_pattern>", ", equipment: ", "<equipment>">>
        \o <<", tags: ">> \o Join(ex.tags)

\* lines 317-324: the line of one exercise; the columns the model does not
\* follow are written as the name of the column
ExerciseLine(ex) ==
    <<"- id: ", ex.id, ", name: ", ex.name, ", subset: ", SubsetOf(ex.primary_muscle),
      ", ", "primary_muscle_id: ", "<primary_muscle_id>", ", ",
      "movement_pattern: ", "<movement_pattern>", ", equipment: ", "<equipment>">>
        \o (IF Len(ex.tags) > 0 THEN <<", tags: ">> \o Join(ex.tags) ELSE <<>>)

CatalogLines(listing) == [k \in 1..Len(listing) |-> ExerciseLine(listing[k])]

\* lines 249-262
Preamble ==
    << <<"You are TrainerAI, an expert workout generator that creates structured workout plans">>,
       <<"according to a strict JSON schema.">>,
       <<>>,
       <<"### RULES">>,
       <<"- USE ONLY the exercises provided in the list.">>,
       <<"- NEVER hallucinate new exercises.">>,
       <<"- ALWAYS match the provided schema exactly.">>,
       <<"- Names must exactly match exercise.name and exercise.id.">>,
       <<"- Ensure each block has valid exercises and set prescriptions.">>,
       <<"- Return ONLY JSON. No commentary.">>,
       <<>>,
       <<"### CONTEXT">> >>

\* no client: payload.client_id is missing or empty
NoClient ==
    [id |-> 0, trainer_id |-> 0, name |-> "", notes |-> <<>>, injury_flags |-> <<>>,
     preferences_json |-> ""]

\* lines 264-274
ClientLines(client) ==
    IF client = NoClient THEN << <<"Client: Not specified">> >>
    ELSE << <<"Client name: ", client.name>> >>
            \o (IF Len(client.notes) > 0
                THEN << <<"Client notes: ">> \o client.notes >> ELSE <<>>)
            \o (IF Len(client.injury_flags) > 0
                THEN << <<"Injuries: ">> \o Join(client.injury_flags) >> ELSE <<>>)
            \o (IF client.preferences_json # ""
                THEN << <<"Preferences: ", client.preferences_json>> >> ELSE <<>>)

\* the request body (WorkoutGenerateRequest), client_id aside
Payload(focus_subsets, session_length_minutes, equipment_available, notes) ==
    [focus_subsets |-> focus_subsets,
     session_length_minutes |-> session_length_minutes,
     equipment_available |-> equipment_available, notes |-> notes]

\* lines 276-283
ConstraintLines(payload) ==
    << <<"Focus subsets: ">> \o Join(payload.focus_subsets) >>
        \o (IF Truthy(payload.session_length_minutes)
            THEN << <<"Session length: ", ToString(payload.session_length_minutes.i),
                      " minutes">> >>
            ELSE <<>>)
        \o (IF Len(payload.equipment_available) > 0
            THEN << <<"Equipment available: ">> \o Join(payload.equipment_available) >>
            ELSE <<>>)
        \o (IF Truthy(payload.notes)
            THEN << <<"Trainer notes: ">> \o payload.notes.s >> ELSE <<>>)

\* lines 285-314
SchemaLines ==
    << <<>>,
       <<"### SCHEMA">>,
       <<"The output must be a JSON object matching this structure:">>,
       <<"{">>,
       <<"  \"name\": \"string (workout name)\",">>,
       <<"  \"focus_subsets\": [\"upper\" | \"lower\" | \"core\" | \"full_body\" | \"conditioning\"],">>,
       <<"  \"muscles_targeted\": [\"string (muscle names)\"],">>,
       <<"  \"blocks\": [">>,
       <<"    {">>,
       <<"      \"block_type\": \"straight\" | \"superset\" | \"circuit\",">>,
       <<"      \"rest_seconds\": number,">>,
       <<"      \"exercises\": [">>,
       <<"        {">>,
       <<"          \"exercise_id\": \"string (must match an exercise.id from the list)\",">>,
       <<"          \"sets\": [">>,
       <<"            {">>,
       <<"              \"reps\": number,">>,
       <<"              \"weight\": number | null,">>,
       <<"              \"notes\": \"string | null\"">>,
       <<"            }">>,
       <<"          ]">>,
       <<"        }">>,
       <<"      ]">>,
       <<"    }">>,
       <<"  ]">>,
       <<"}">>,
       <<>>,
       <<"### AVAILABLE EXERCISES">> >>

\* lines 326-337
InstructionLines(payload) ==
    << <<>>,
       <<"### INSTRUCTION">>,
       <<"Generate exactly 1 workout plan in valid JSON that follows:">>,
       <<"- Focus on: ">> \o Join(payload.focus_subsets),
       <<"- Include 4-6 exercises total">>,
       <<"- 3-4 sets per exercise unless it's a circuit">>,
       <<"- Rest: 60-120 seconds between sets">>,
       <<>>,
       <<"RETURN ONLY VALID JSON.">> >>

\* the prompt with the catalog put before the schema
BuildPromptCatalogFirst(payload, client, listing) ==
    Preamble \o ClientLines(client) \o ConstraintLines(payload)
        \o <<SchemaLines[1], SchemaLines[Len(SchemaLines)]>> \o CatalogLines(listing)
        \o SubSeq(SchemaLines, 1, Len(SchemaLines) - 1) \o InstructionLines(payload)

\* lines 248-339: prompt_parts, the lines "\n".join puts together
BuildPrompt(payload, client, listing) ==
    Preamble \o ClientLines(client) \o ConstraintLines(payload) \o SchemaLines
        \o CatalogLines(listing) \o InstructionLines(payload)

NoPrompt == <<>>

(***************************************************************************)
(* Bounds and inputs                                                       *)
(***************************************************************************)
NumRequests == 2
NumTrainers == 2
MaxSets == 2
MaxBlocks == 2
MaxExercises == 2
MaxReps == 12
MaxHalves == 3

Requests == 1..NumRequests
Trainers == 1..NumTrainers

T_12reps == <<"1", "2", " ", "r", "e", "p", "s">>
T_30s == <<"3", "0", "s">>
T_8to10 == <<"8", "-", "1", "0">>
T_AMRAP == <<"A", "M", "R", "A", "P">>
T_tofailure == <<" ", "t", "o", " ", "f", "a", "i", "l", "u", "r", "e", " ">>
T_x007 == <<"x", "0", "0", "7">>
T_15padded == <<" ", "1", "5", " ">>
T_blank == <<" ", " ">>
T_45seconds == <<"4", "5", " ", "s", "e", "c", "o", "n", "d", "s">>
T_hold45 == <<"h", "o", "l", "d", " ", "f", "o", "r", " ", "4", "5", " ", "s", "e", "c", "o", "n", "d", "s">>
T_10slow == <<"1", "0", " ", "s", "l", "o", "w">>
T_30SEC == <<"3", "0", " ", "S", "E", "C">>
T_easy == <<"e", "a", "s", "y">>
T_max == <<"m", "a", "x">>
T_bw == <<"b", "w">>
T_notjson == <<"n", "o", "t", " ", "j", "s", "o", "n">>
T_e1 == <<"e", "1">>
T_zz == <<"z", "z">>
T_name == <<"P", "u", "s", "h">>

RepsStrings ==
    {T_12reps, T_30s, T_8to10, T_AMRAP, T_tofailure, T_x007, T_15padded, T_blank, <<>>}

RepsVals ==
    {PyNone, PyOther}
        \cup {PyInt(n) : n \in {-1, 0, MaxReps}}
        \cup {PyFloat(k, 2) : k \in (-MaxHalves)..MaxHalves}
        \cup {PyStr(str) : str \in RepsStrings}

SecondsVals ==
    {PyNone, PyOther, PyInt(30), PyFloat(-3, 2), PyStr(T_45seconds), PyStr(T_AMRAP)}

NotesVals ==
    {PyNone, PyOther, PyInt(5), PyStr(<<>>), PyStr(T_hold45), PyStr(T_10slow),
     PyStr(T_AMRAP), PyStr(T_30SEC), PyStr(T_easy)}

RepsTextVals == {PyNone, PyStr(T_max), PyStr(<<>>)}

WeightVals == {PyNone, PyInt(20), PyStr(T_bw)}

RawSets ==
    {RawSet(r, sec, w, n, rt) :
        r \in RepsVals, sec \in SecondsVals, w \in WeightVals, n \in NotesVals,
        rt \in RepsTextVals}

\* the sets the plans of the model are made of
SetSamples ==
    { RawSet(PyInt(10), PyNone, PyNone, PyNone, PyNone),
      RawSet(PyStr(T_AMRAP), PyNone, PyNone, PyNone, PyNone),
      RawSet(PyNone, PyNone, PyNone, PyStr(T_hold45), PyNone),
      RawSet(PyNone, PyNone, PyInt(20), PyNone, PyNone),
      RawSet(PyNone, PyNone, PyNone, PyStr(T_easy), PyStr(<<>>)),
      RawSet(PyNone, PyNone, PyNone, PyInt(5), PyNone),
      RawSet(PyInt(10), PyNone, PyStr(T_bw), PyNone, PyNone),
      RawSet(PyNone, PyNone, PyNone, PyNone, PyStr(T_max)),
      RawSet(PyStr(T_AMRAP), PyNone, PyNone, PyStr(T_max), PyNone) }

GoodSet == RawSet(PyInt(10), PyNone, PyNone, PyNone, PyNone)
EmptySet == RawSet(PyNone, PyNone, PyInt(20), PyNone, PyNone)

SeqsUpTo(n, S) == UNION {[1..k -> S] : k \in 0..n}

\* one block, one exercise, every sequence of sample sets
PlansBySets ==
    {RawPlan(PyStr(T_name), <<"upper">>, <<"Chest">>,
             <<RawBlock("straight", PyInt(60), <<RawExercise(PyStr(T_e1), sets)>>)>>) :
        sets \in SeqsUpTo(MaxSets, SetSamples)}

\* several blocks of one exercise with one set
PlansByBlocks ==
    {RawPlan(PyStr(T_name), <<"upper">>, <<"Chest">>, blocks) :
        blocks \in SeqsUpTo(MaxBlocks,
            {RawBlock(bt, PyInt(60), <<RawExercise(PyStr(T_e1), <<set>>)>>) :
                bt \in {"straight", "triset"}, set \in {GoodSet, EmptySet}})}

\* one block of several exercises with one set
PlansByExercises ==
    {RawPlan(PyStr(T_name), <<"upper">>, <<"Chest">>,
             <<RawBlock("circuit", PyInt(60), exs)>>) :
        exs \in SeqsUpTo(MaxExercises,
            {RawExercise(id, <<set>>) :
                id \in {PyStr(T_e1), PyStr(T_zz)}, set \in {GoodSet, EmptySet}})}

\* a field of the plan or of a block missing or of the wrong type
PlansByShape ==
    { RawPlan(PyNone, <<"upper">>, <<"Chest">>,
              <<RawBlock("straight", PyInt(60), <<RawExercise(PyStr(T_e1), <<GoodSet>>)>>)>>),
      RawPlan(PyStr(T_name), <<"arms">>, <<"Chest">>,
              <<RawBlock("straight", PyInt(60), <<RawExercise(PyStr(T_e1), <<GoodSet>>)>>)>>),
      RawPlan(PyStr(T_name), <<"upper">>, <<"Chest">>,
              <<RawBlock("straight", PyNone, <<RawExercise(PyStr(T_e1), <<GoodSet>>)>>)>>),
      RawPlan(PyStr(T_name), <<"upper">>, <<"Chest">>,
              <<RawBlock("straight", PyInt(60), <<RawExercise(PyNone, <<GoodSet>>)>>)>>) }

\* the block types the model can answer with: the three of the schema,
\* three that are not, and one of the schema in another letter case
AnsweredBlockTypes ==
    {"straight", "superset", "circuit", "triset", "warmup", "finisher", "Straight"}

\* several blocks of any type, each of one exercise with one valid set
PlansByBlockType ==
    {RawPlan(PyStr(T_name), <<"upper">>, <<"Chest">>, blocks) :
        blocks \in SeqsUpTo(MaxBlocks,
            {RawBlock(bt, PyInt(60), <<RawExercise(PyStr(T_e1), <<GoodSet>>)>>) :
                bt \in AnsweredBlockTypes})}

\* the dict with one more key, which no model declares
WithExtra(dict) ==
    [key \in DOMAIN dict \cup {"difficulty"} |->
        IF key = "difficulty" THEN PyStr(T_zz) ELSE dict[key]]

\* a plan of one block, one exercise and one set, with an undeclared key at
\* the levels named in `at`
PlanWithExtras(set, at) ==
    LET s == IF "set" \in at THEN WithExtra(set) ELSE set
        e == RawExercise(PyStr(T_e1), <<s>>)
        b == RawBlock("straight", PyInt(60),
                      <<IF "exercise" \in at THEN WithExtra(e) ELSE e>>)
        p == RawPlan(PyStr(T_name), <<"upper">>, <<"Chest">>,
                     <<IF "block" \in at THEN WithExtra(b) ELSE b>>)
    IN  IF "plan" \in at THEN WithExtra(p) ELSE p

PlansByExtras ==
    {PlanWithExtras(set, at) :
        set \in {GoodSet, EmptySet, RawSet(PyStr(T_AMRAP), PyNone, PyNone, PyNone, PyNone)},
        at \in {{"plan"}, {"block"}, {"exercise"}, {"set"},
                {"plan", "block", "exercise", "set"}}}

\* the characters of the ids of the exercises table
IdChars ==
    [id \in {"a1", "a2", "b1", "g1"} |->
        CASE id = "a1" -> <<"a", "1">> [] id = "a2" -> <<"a", "2">>
          [] id = "b1" -> <<"b", "1">> [] OTHER -> <<"g", "1">>]

\* one block of several exercises with a valid set, the exercise_id being
\* the id of a row of the table, an id of no row, or the empty string
PlansByIds ==
    {RawPlan(PyStr(T_name), <<"upper">>, <<"Chest">>,
             <<RawBlock("circuit", PyInt(60), exs)>>) :
        exs \in SeqsUpTo(MaxExercises,
            {RawExercise(PyStr(id), <<GoodSet>>) :
                id \in {IdChars["a1"], IdChars["b1"], T_zz, <<>>}})}

Payloads ==
    PlansBySets \cup PlansByBlocks \cup PlansByExercises \cup PlansByShape
        \cup PlansByBlockType \cup PlansByExtras \cup PlansByIds

\* the texts the model can answer with
OuterPads == {<<>>, <<" ">>, <<"\n">>}
InnerPads == {<<>>, <<"\n">>}
Openers == {<<>>, Fence, FenceJson, Fence \o <<"j", "s">>}
Closers == {<<>>, Fence}
Doc_1 == <<"1">>
Doc_a1 == ObjOpen \o <<"1", "}">>
SmallBodies == {Doc_1, Doc_a1, T_notjson, <<>>}
Garbage(n) == [k \in 1..n |-> "x"]
LongBodies == {Garbage(n) : n \in {SnippetCap - 1, SnippetCap, SnippetCap + 1}}

Wrap(pre, open, inner, body, close, post) ==
    pre \o open \o inner \o body \o inner \o close \o post

SmallTexts ==
    {Wrap(pre, open, inner, body, close, post) :
        pre \in OuterPads, open \in Openers, inner \in InnerPads,
        body \in SmallBodies, close \in Closers, post \in OuterPads}

LongTexts ==
    LongBodies
        \cup {Wrap(<<>>, FenceJson, <<"\n">>, body, Fence, <<>>) : body \in LongBodies}
        \cup {Wrap(<<" ">>, <<>>, <<>>, body, <<>>, <<" ">>) : body \in LongBodies}

PlanTexts ==
    { <<PlanText>>,
      Wrap(<<>>, FenceJson, <<"\n">>, <<PlanText>>, Fence, <<>>),
      Wrap(<<>>, FenceJson, <<"\n">>, <<PlanText>>, Fence, <<"\n">>) }

\* what the library can do with one call: without an API key it raises;
\* with one it raises or returns a text
ExternalOutcomes(key) ==
    {External(type, <<>>, NoPlan) : type \in ExternalExcTypes}
        \cup (IF key
              THEN {External("", text, NoPlan) : text \in SmallTexts \cup LongTexts}
                       \cup {External("", text, plan) :
                                text \in PlanTexts, plan \in Payloads}
              ELSE {})

(***************************************************************************)
(* State                                                                   *)
(***************************************************************************)
VARIABLES
    settingsKey,    \* settings.GEMINI_API_KEY is set
    clients,        \* rows of the clients table
    exercises,      \* rows of the exercises table (trainer_id 0: NULL, global)
    incoming,       \* the requests the callers of the generate endpoint send
    prompt,         \* per request: the prompt of the call of the model in progress
    pc,             \* per request: idle, ready, awaiting, done
    loopOwner,      \* the request whose coroutine runs on the event loop, or 0
    req,            \* per request: the trainer and the payload's client_id
    calls,          \* per request: calls of model.generate_content made
    ext,            \* per request: what the library did with the call
    gen,            \* per request: the outcome of generate_workout_plan
    response,       \* per request: the HTTP response
    normPc,         \* set normalization on its own: off, input, done
    rawSet,         \* the raw set handed to SetPrescription
    setResult,      \* what normalization and validation made of rawSet
    workouts,       \* rows of the workouts table, each with its blocks and sets
    trainers,       \* rows of the trainers table
    reply,          \* the answer to the last request to a resource endpoint
    recording       \* the answers to the resource endpoints are kept in `reply`

pipelineVars == <<settingsKey, clients, exercises, incoming, prompt, pc, loopOwner,
                  req, calls, ext, gen, response>>
normVars == <<normPc, rawSet, setResult>>
vars == <<settingsKey, clients, exercises, incoming, prompt, pc, loopOwner, req, calls,
          ext, gen, response, normPc, rawSet, setResult, workouts, trainers, reply,
          recording>>

\* a request: the authenticated trainer and the body
Request(trainer, client_id, payload) ==
    [trainer |-> trainer, client_id |-> client_id, payload |-> payload]

\* the body with focus_subsets alone
PlainPayload == Payload(<<"upper">>, PyNone, <<>>, PyNone)

NoRequest == Request(0, 0, Payload(<<>>, PyNone, <<>>, PyNone))
NoGen == Returned(NoJson)

\* a row of the workouts table with its blocks; a block is its type and the
\* exercise_id of each of its sets (client_id 0: NULL)
WorkoutRow(id, trainer_id, client_id, title, date, blocks) ==
    [id |-> id, trainer_id |-> trainer_id, client_id |-> client_id, title |-> title,
     date |-> date, blocks |-> blocks]

Block(block_type, sets) == [block_type |-> block_type, sets |-> sets]

\* the answer of a resource endpoint: the HTTP status, the ids of the rows
\* a list returns, the counters a seeding returns
Answered(op, trainer, target, status, items, created, skipped) ==
    [op |-> op, trainer |-> trainer, target |-> target, status |-> status,
     items |-> items, created |-> created, skipped |-> skipped]
NoAnswer == Answered("", 0, "", 0, {}, 0, 0)

\* the workouts the generation requests run beside: one of each trainer
InitWorkouts ==
    { WorkoutRow("w1", 1, 1, "Push", "2024-01-01", <<Block("straight", <<"a1">>)>>),
      WorkoutRow("w2", 2, 0, "Pull", "2024-01-01", <<>>) }

\* the uids Firebase gives its users
Uids == <<"u1", "u2", "u3">>

\* the server's trainers
InitTrainers ==
    {[id |-> k, firebase_uid |-> Uids[k], email |-> "e1"] : k \in 1..NumTrainers}

\* the resource endpoints at rest, their answers not kept
StoreIdle ==
    /\ workouts = InitWorkouts
    /\ trainers = InitTrainers
    /\ reply = NoAnswer
    /\ recording = FALSE
NoSetResult ==
    [reps_val |-> PyNone, seconds_val |-> PyNone, n |-> Normalized(NoSet),
     v |-> SetFailed("")]

\* the rows the requests run against
InitClients ==
    { [id |-> 1, trainer_id |-> 1, name |-> "Ann", notes |-> <<"b", "u", "s", "y">>,
       injury_flags |-> <<"shoulder", "knee">>, preferences_json |-> "<preferences_json>"],
      [id |-> 2, trainer_id |-> 1, name |-> "Bob", notes |-> <<>>,
       injury_flags |-> <<>>, preferences_json |-> ""] }

\* a row of the exercises table
ExerciseRow(id, trainer_id, name, is_active, primary_muscle, tags) ==
    [id |-> id, trainer_id |-> trainer_id, name |-> name, is_active |-> is_active,
     primary_muscle |-> primary_muscle, tags |-> tags]

InitExercises ==
    { ExerciseRow("a1", 1, "Curl", TRUE, "Calves", <<>>),
      ExerciseRow("b1", 2, "Curl", FALSE, "Calves", <<>>) }

\* the requests sent when the call of the model is what is looked at: one
\* body, with and without the client
PlainTraffic ==
    {Request(trainer, client_id, PlainPayload) :
        trainer \in Trainers, client_id \in {0, 1}}

RequestsIdle ==
    /\ prompt = [r \in Requests |-> NoPrompt]
    /\ pc = [r \in Requests |-> "idle"]
    /\ loopOwner = 0
    /\ req = [r \in Requests |-> NoRequest]
    /\ calls = [r \in Requests |-> 0]
    /\ ext = [r \in Requests |-> NoExternal]
    /\ gen = [r \in Requests |-> NoGen]
    /\ response = [r \in Requests |-> NoResponse]

PipelineIdle ==
    /\ clients = InitClients
    /\ exercises = InitExercises
    /\ incoming = PlainTraffic
    /\ RequestsIdle
    /\ StoreIdle

Init ==
    /\ settingsKey \in BOOLEAN
    /\ PipelineIdle
    /\ normPc = "off"
    /\ rawSet = NoSet
    /\ setResult = NoSetResult

(***************************************************************************)
(* The generate endpoint                                                   *)
(***************************************************************************)
\* lines 170-182: the client of the payload, looked up among the trainer's
ClientFound(trainer, client_id) ==
    \E c \in clients : c.id = client_id /\ c.trainer_id = trainer

\* the query of lines 185-200 without its ownership filter
CatalogOfAnyOwner(trainer) == {e \in exercises : e.is_active}

\* lines 185-200: the trainer's active exercises and the global ones
Catalog(trainer) ==
    {e \in exercises : (e.trainer_id = trainer \/ e.trainer_id = 0) /\ e.is_active}

\* lines 168-182: the client the prompt is built for
TheClient(trainer, client_id) ==
    IF client_id = 0 THEN NoClient
    ELSE CHOOSE c \in clients : c.id = client_id /\ c.trainer_id = trainer

\* the HTTPException raised only after a call of the model
RefuseAfterCall(r, answer) ==
    /\ response' = [response EXCEPT ![r] = answer]
    /\ pc' = [pc EXCEPT ![r] = "done"]
    /\ calls' = [calls EXCEPT ![r] = @ + 1]
    /\ prompt' = prompt

\* the handler raises an HTTPException before the call of the model
Refuse(r, answer) ==
    /\ response' = [response EXCEPT ![r] = answer]
    /\ pc' = [pc EXCEPT ![r] = "done"]
    /\ calls' = calls
    /\ prompt' = prompt

\* line 343: generate_workout_plan(prompt) is called
CallModel(r, text) ==
    /\ response' = response
    /\ pc' = [pc EXCEPT ![r] = "awaiting"]
    /\ calls' = [calls EXCEPT ![r] = @ + 1]
    /\ prompt' = [prompt EXCEPT ![r] = text]

\* a generation that stores the plan it returns as a workout of the trainer
PlanStored ==
    /\ workouts' = workouts \cup
          {WorkoutRow("w9", 1, 0, "Push", "2024-01-01", <<>>)}
    /\ UNCHANGED <<clients, exercises>>

\* generate_workout (lines 158-364) reads through the session (db.execute
\* of a select) and never calls db.add, db.delete or db.commit
NothingStored == UNCHANGED <<clients, exercises, workouts>>

\* a request reaches the server; its dependencies are resolved
Arrive(r) ==
    /\ pc[r] = "idle"
    /\ pc' = [pc EXCEPT ![r] = "ready"]
    /\ NothingStored
    /\ UNCHANGED <<settingsKey, incoming, prompt, loopOwner, req, calls, ext, gen,
                   response, normVars, trainers, reply, recording>>

\* generate_workout up to the call of the model (lines 168-343).  The
\* endpoint is a coroutine run by the event loop; model.generate_content is
\* a synchronous call made inside it, so the loop stays with this request
\* until the coroutine ends.
StartHandler(r) ==
    /\ pc[r] = "ready"
    /\ loopOwner = 0
    /\ loopOwner' = r
    /\ \E q \in incoming :
          /\ req' = [req EXCEPT ![r] = q]
          /\ IF q.client_id # 0 /\ ~ClientFound(q.trainer, q.client_id)
             THEN Refuse(r, Http(404, "Client not found", NoExc, NoPlan))
             ELSE IF Catalog(q.trainer) = {}
             THEN Refuse(r, Http(400, "No exercises available", NoExc, NoPlan))
             ELSE \E listing \in SortedListings(Catalog(q.trainer)) :
                     CallModel(r, BuildPrompt(q.payload,
                                              TheClient(q.trainer, q.client_id), listing))
    /\ NothingStored
    /\ UNCHANGED <<settingsKey, incoming, ext, gen, normVars, trainers, reply,
                   recording>>

\* the call of the library ends: the rest of generate_workout_plan and of
\* generate_workout (ai_client.py 50-80, workouts.py 344-364)
\* the request ends with `answer`, or goes where `next` says
Finish(r, outcome, g, answer, next) ==
    /\ ext' = [ext EXCEPT ![r] = outcome]
    /\ gen' = [gen EXCEPT ![r] = g]
    /\ pc' = [pc EXCEPT ![r] = next]
    /\ response' = [response EXCEPT ![r] = IF next = "done" THEN answer ELSE NoResponse]
    /\ calls' = [calls EXCEPT ![r] = IF next = "awaiting" THEN @ + 1 ELSE @]

\* a failure is final: the HTTPException ends the request
Answer(r, outcome, g, answer) ==
    Finish(r, outcome, g, answer, IF answer.status = 200 THEN "done" ELSE AfterFailure)

\* the plan refused when it names an exercise that is not a row of the table
GeneratedCrossChecked(r, outcome, g) ==
    Answer(r, outcome, g,
        IF /\ g.exc.type = ""
           /\ g.value.kind = "plan"
           /\ \E b \in DOMAIN g.value.plan.blocks :
                 \E e \in DOMAIN g.value.plan.blocks[b].exercises :
                     g.value.plan.blocks[b].exercises[e].exercise_id.s
                         \notin {IdChars[x.id] : x \in exercises}
        THEN Http(502, "Generated workout plan failed validation", NoExc, NoPlan)
        ELSE RespondToPlan(g))

\* workouts.py 344-364, given the outcome g of generate_workout_plan
Generated(r, outcome, g) == Answer(r, outcome, g, RespondToPlan(g))

ModelReturns(r) ==
    /\ pc[r] = "awaiting"
    /\ \E outcome \in ExternalOutcomes(settingsKey) :
          Generated(r, outcome, generate_workout_plan(outcome))
    /\ prompt' = [prompt EXCEPT ![r] = NoPrompt]
    /\ NothingStored
    /\ UNCHANGED <<settingsKey, incoming, loopOwner, req, normVars, trainers, reply,
                   recording>>

\* the response is sent and the request's coroutine ends
Deliver(r) ==
    /\ pc[r] = "done"
    /\ loopOwner = r
    /\ loopOwner' = 0
    /\ pc' = [pc EXCEPT ![r] = "idle"]
    /\ req' = [req EXCEPT ![r] = NoRequest]
    /\ calls' = [calls EXCEPT ![r] = 0]
    /\ ext' = [ext EXCEPT ![r] = NoExternal]
    /\ gen' = [gen EXCEPT ![r] = NoGen]
    /\ response' = [response EXCEPT ![r] = NoResponse]
    /\ NothingStored
    /\ UNCHANGED <<settingsKey, incoming, prompt, normVars, trainers, reply, recording>>

Next ==
    \E r \in Requests :
        \/ Arrive(r)
        \/ StartHandler(r)
        \/ ModelReturns(r)
        \/ Deliver(r)

Spec == Init /\ [][Next]_vars

(***************************************************************************)
(* The exercises table: api/v1/exercises.py, services/exercise_seed.py,    *)
(* services/global_exercise_seed.py                                        *)
(***************************************************************************)
\* the ids uuid4() hands out, per owner (0: no owner, a global exercise);
\* an id is only ever compared with another, so which unused id a new row
\* gets is immaterial
IdsOf(owner) ==
    IF owner = 0 THEN {"g1"} ELSE IF owner = 1 THEN {"a1", "a2"} ELSE {"b1"}

FreeIds(owner, rows) == IdsOf(owner) \ {e.id : e \in rows}

\* every id of the exercises table
ExerciseIds == IdsOf(0) \cup IdsOf(1) \cup IdsOf(2)

\* DEFAULT_EXERCISES (app/data/default_exercises.py): the entries the
\* seeding goes through, the second without a primary muscle
DEFAULT_EXERCISES ==
    << [name |-> "Bench", primary_muscle |-> "Chest", tags |-> <<"push", "compound">>],
       [name |-> "Plank", primary_muscle |-> "", tags |-> <<>>] >>

\* the names the trainers give their exercises when the seeding is what is
\* looked at
SeedNames == <<"Bench", "bench">>

\* the case folding under which ILIKE compares the names
FoldCase(name) ==
    CASE name = "Bench" -> "bench"
      [] name = "Curl" -> "curl"
      [] name = "Plank" -> "plank"
      [] OTHER -> name

\* Exercise.name.ilike(pattern), for names without a wildcard
ilike(name, pattern) == FoldCase(name) = FoldCase(pattern)

\* UniqueConstraint("name", "trainer_id"): a NULL trainer_id never collides
UniqueOk(rows) ==
    \A e \in rows, f \in rows :
        (e # f /\ e.trainer_id # 0 /\ e.trainer_id = f.trainer_id) => e.name # f.name

\* db.commit(): the rows are stored unless the constraint refuses them
Commit(rows) == exercises' = IF UniqueOk(rows) THEN rows ELSE exercises

\* the answer of the endpoint, kept when the answers are recorded
Record(a) == reply' = IF recording THEN a ELSE NoAnswer

\* the answer with a status alone
Status(op, trainer, target, status) == Answered(op, trainer, target, status, {}, 0, 0)

\* the status of a request whose commit the constraint decides
CommitStatus(rows, ok) == IF UniqueOk(rows) THEN ok ELSE 500

\* create_exercise: the row of ExerciseCreate, owned by the trainer; the
\* muscle of an exercise made through the API is one without a subset
create_exercise(trainer, name, is_active) ==
    /\ FreeIds(trainer, exercises) # {}
    /\ LET row == ExerciseRow(CHOOSE id \in FreeIds(trainer, exercises) : TRUE,
                              trainer, name, is_active, "Calves", <<>>)
       IN  /\ Commit(exercises \cup {row})
           /\ Record(Status("create_exercise", trainer, row.id,
                            CommitStatus(exercises \cup {row}, 201)))

\* _get_exercise_or_404
Owned(trainer, id) == {e \in exercises : e.id = id /\ e.trainer_id = trainer}

\* get_exercise
get_exercise(trainer, id) ==
    /\ exercises' = exercises
    /\ Record(IF Owned(trainer, id) = {} THEN Status("get_exercise", trainer, id, 404)
              ELSE Answered("get_exercise", trainer, id, 200, {id}, 0, 0))

\* list_exercises without a filter
list_exercises(trainer) ==
    /\ exercises' = exercises
    /\ Record(Answered("list_exercises", trainer, "", 200,
                       {e.id : e \in {x \in exercises : x.trainer_id = trainer}}, 0, 0))

\* update_exercise with a body that sets the name
RenameExercise(trainer, id, name) ==
    IF Owned(trainer, id) = {}
    THEN /\ exercises' = exercises
         /\ Record(Status("update_exercise", trainer, id, 404))
    ELSE LET rows == {IF e \in Owned(trainer, id) THEN [e EXCEPT !.name = name] ELSE e :
                         e \in exercises}
         IN  /\ Commit(rows)
             /\ Record(Status("update_exercise", trainer, id, CommitStatus(rows, 200)))

\* update_exercise with a body that sets is_active
SetActive(trainer, id, is_active) ==
    IF Owned(trainer, id) = {}
    THEN /\ exercises' = exercises
         /\ Record(Status("update_exercise", trainer, id, 404))
    ELSE /\ Commit({IF e \in Owned(trainer, id) THEN [e EXCEPT !.is_active = is_active]
                    ELSE e : e \in exercises})
         /\ Record(Status("update_exercise", trainer, id, 200))

\* a set of a stored workout references the exercise
Referenced(id) ==
    \E w \in workouts : \E b \in DOMAIN w.blocks :
        \E k \in DOMAIN w.blocks[b].sets : w.blocks[b].sets[k] = id

\* db.delete(exercise) blanks the exercise_id of the rows that reference
\* it: the key column of its exercise_tag rows and the NOT NULL column of
\* its workout_set rows refuse that
DeleteRefused(id) ==
    \/ Referenced(id)
    \/ \E e \in exercises : e.id = id /\ e.tags # <<>>

\* delete_exercise
delete_exercise(trainer, id) ==
    IF Owned(trainer, id) = {}
    THEN /\ exercises' = exercises
         /\ Record(Status("delete_exercise", trainer, id, 404))
    ELSE IF DeleteRefused(id)
    THEN /\ exercises' = exercises
         /\ Record(Status("delete_exercise", trainer, id, 500))
    ELSE /\ exercises' = exercises \ Owned(trainer, id)
         /\ Record(Status("delete_exercise", trainer, id, 204))

\* the counters and the rows of the session as the seeding starts
SeedStart(rows) == [rows |-> rows, created |-> 0, skipped |-> 0, raised |-> ""]

\* the loop of seed_default_exercises_for_trainer and of
\* seed_global_exercises from entry k on: an entry without a primary muscle
\* is skipped; scalar_one_or_none() raises when two rows of the owner match
\* the name; an entry with one match is skipped, the others become active
\* rows with their tags
RECURSIVE SeedLoop(_, _, _)
SeedLoop(owner, k, acc) ==
    IF k > Len(DEFAULT_EXERCISES) \/ acc.raised # "" THEN acc
    ELSE LET entry == DEFAULT_EXERCISES[k]
             existing == {e \in acc.rows :
                             e.trainer_id = owner /\ ilike(e.name, entry.name)}
         IN  IF entry.primary_muscle = ""
             THEN SeedLoop(owner, k + 1, [acc EXCEPT !.skipped = @ + 1])
             ELSE IF Cardinality(existing) > 1
             THEN [acc EXCEPT !.raised = "MultipleResultsFound"]
             ELSE IF existing # {}
             THEN SeedLoop(owner, k + 1, [acc EXCEPT !.skipped = @ + 1])
             ELSE SeedLoop(owner, k + 1,
                      [acc EXCEPT !.created = @ + 1,
                                  !.rows = @ \cup
                                      {ExerciseRow(CHOOSE id \in FreeIds(owner, acc.rows) : TRUE,
                                                   owner, entry.name, TRUE,
                                                   entry.primary_muscle, entry.tags)}])

\* the rows stored after the seeding: db.commit() ends the loop, and a
\* session that raised is closed without one
Seeded(owner, k, rows) ==
    LET s == SeedLoop(owner, k, SeedStart(rows))
    IN  IF s.raised = "" THEN s.rows ELSE rows

\* the entries the seeding can make a row of
Creatable == {k \in DOMAIN DEFAULT_EXERCISES : DEFAULT_EXERCISES[k].primary_muscle # ""}

\* the entries the owner has no row for: the rows a seeding has to find
\* an id for
Missing(owner, rows) ==
    {k \in Creatable :
        ~ \E e \in rows : e.trainer_id = owner /\ ilike(e.name, DEFAULT_EXERCISES[k].name)}

\* what the caller of a seeding gets: the counters, or the failure
SeedAnswer(op, owner, s) ==
    IF s.raised = "" THEN Answered(op, owner, "", 200, {}, s.created, s.skipped)
    ELSE Status(op, owner, "", 500)

\* POST /exercises/seed-defaults
seed_default_exercises(trainer) ==
    /\ Cardinality(FreeIds(trainer, exercises)) >= Cardinality(Missing(trainer, exercises))
    /\ exercises' = Seeded(trainer, 1, exercises)
    /\ Record(SeedAnswer("seed_default_exercises", trainer,
                         SeedLoop(trainer, 1, SeedStart(exercises))))

\* lifespan (main.py): the global exercises are seeded when the server
\* starts; the counters are printed, and so is a failure
seed_global_exercises ==
    /\ Cardinality(FreeIds(0, exercises)) >= Cardinality(Missing(0, exercises))
    /\ exercises' = Seeded(0, 1, exercises)
    /\ Record(SeedAnswer("seed_global_exercises", 0,
                         SeedLoop(0, 1, SeedStart(exercises))))

TableUnchanged ==
    UNCHANGED <<settingsKey, clients, incoming, prompt, pc, loopOwner, req, calls,
               ext, gen, response, normVars, workouts, trainers, recording>>

\* create_exercise, update_exercise and delete_exercise are coroutines of
\* the event loop that runs generate_workout: they start when the loop is
\* free and do not give it up before they end
CreateExercise(trainer, names) ==
    /\ loopOwner = 0
    /\ \E i \in 1..Len(names), is_active \in BOOLEAN :
          create_exercise(trainer, names[i], is_active)
    /\ TableUnchanged

UpdateExercise(trainer, names) ==
    /\ loopOwner = 0
    /\ \E id \in ExerciseIds :
          \/ \E i \in 1..Len(names) : RenameExercise(trainer, id, names[i])
          \/ \E is_active \in BOOLEAN : SetActive(trainer, id, is_active)
    /\ TableUnchanged

DeleteExercise(trainer) ==
    /\ loopOwner = 0
    /\ \E id \in ExerciseIds : delete_exercise(trainer, id)
    /\ TableUnchanged

GetExercise(trainer) ==
    /\ loopOwner = 0
    /\ \E id \in ExerciseIds : get_exercise(trainer, id)
    /\ TableUnchanged

ListExercises(trainer) ==
    /\ loopOwner = 0
    /\ list_exercises(trainer)
    /\ TableUnchanged

\* seed_default_exercises is a plain function: the endpoint runs in a
\* worker thread and the command line (cli/seed_exercises.py) in a process
\* of its own, which do not wait for the event loop
SeedDefaults(trainer) ==
    /\ seed_default_exercises(trainer)
    /\ TableUnchanged

SeedGlobal ==
    /\ seed_global_exercises
    /\ TableUnchanged

\* the bodies sent when the prompt is what is looked at
FullPayload ==
    Payload(<<"upper", "core">>, PyInt(45), <<"dumbbell", "bench">>,
            PyStr(<<"f", "a", "s", "t">>))
FalsyPayload == Payload(<<"lower">>, PyInt(0), <<>>, PyStr(<<>>))

\* the first trainer asks without a client, for the client with every
\* field and for the client with a name alone; the second trainer asks
\* without a client and for a client that is not theirs
CatalogTraffic ==
    { Request(1, 0, PlainPayload), Request(1, 1, FullPayload),
      Request(1, 2, FalsyPayload), Request(2, 0, FullPayload),
      Request(2, 1, PlainPayload) }

\* the server without an API key, its exercises table empty
InitCatalog ==
    /\ settingsKey = FALSE
    /\ clients = InitClients
    /\ exercises = {}
    /\ incoming = CatalogTraffic
    /\ RequestsIdle
    /\ workouts = {}
    /\ trainers = InitTrainers
    /\ reply = NoAnswer
    /\ recording = FALSE
    /\ normPc = "off"
    /\ rawSet = NoSet
    /\ setResult = NoSetResult

NextCatalog ==
    \/ \E r \in Requests :
          \/ Arrive(r)
          \/ StartHandler(r)
          \/ ModelReturns(r)
          \/ Deliver(r)
    \/ \E trainer \in Trainers :
          \/ CreateExercise(trainer, ExerciseNames)
          \/ UpdateExercise(trainer, ExerciseNames)
          \/ DeleteExercise(trainer)
          \/ SeedDefaults(trainer)
    \/ SeedGlobal

SpecCatalog == InitCatalog /\ [][NextCatalog]_vars

(***************************************************************************)
(* The seeding beside the exercise endpoints, the answers kept             *)
(***************************************************************************)
\* a server that has answered nothing yet, no request to generate on the way
InitSeed ==
    /\ settingsKey = FALSE
    /\ clients = InitClients
    /\ exercises = {}
    /\ incoming = {}
    /\ RequestsIdle
    /\ workouts = {}
    /\ trainers = InitTrainers
    /\ reply = NoAnswer
    /\ recording = TRUE
    /\ normPc = "off"
    /\ rawSet = NoSet
    /\ setResult = NoSetResult

NextSeed ==
    \/ \E trainer \in Trainers :
          \/ CreateExercise(trainer, SeedNames)
          \/ DeleteExercise(trainer)
          \/ SeedDefaults(trainer)
    \/ SeedGlobal

SpecSeed == InitSeed /\ [][NextSeed]_vars

(***************************************************************************)
(* SetPrescription on its own: one raw set, normalized and validated       *)
(***************************************************************************)
InitNorm ==
    /\ settingsKey = TRUE
    /\ PipelineIdle
    /\ normPc = "input"
    /\ rawSet \in RawSets
    /\ setResult = NoSetResult

\* SetPrescription.model_validate(rawSet)
ApplyNormalize ==
    /\ normPc = "input"
    /\ normPc' = "done"
    /\ setResult' = [reps_val |-> _extract_first_int(rawSet.reps),
                     seconds_val |-> _extract_first_int(rawSet.seconds),
                     n |-> normalize_set(rawSet),
                     v |-> ValidateSet(rawSet)]
    /\ UNCHANGED <<rawSet, pipelineVars, workouts, trainers, reply, recording>>

NextNorm == ApplyNormalize

SpecNorm == InitNorm /\ [][NextNorm]_vars

(***************************************************************************)
(* Properties                                                              *)
(***************************************************************************)
\* a request whose generation reached the call of the model and ended
Generated_Done(r) == pc[r] = "done" /\ calls[r] > 0

\* the set carries reps, seconds or a non-empty fallback text
HasOneOfThree(set) ==
    \/ set.reps.t = "int"
    \/ set.seconds.t = "int"
    \/ (set.reps_text.t = "str" /\ Len(set.reps_text.s) > 0)

\* the plan `out` has the blocks, exercises and sets of `raw`, one for one
SameLayout(raw, out) ==
    /\ Len(out.blocks) = Len(raw.blocks)
    /\ \A b \in 1..Len(raw.blocks) :
          /\ Len(out.blocks[b].exercises) = Len(raw.blocks[b].exercises)
          /\ \A e \in 1..Len(raw.blocks[b].exercises) :
                Len(out.blocks[b].exercises[e].sets)
                    = Len(raw.blocks[b].exercises[e].sets)

\* the raw set has none of the three after normalization
NoneOfThree(data) ==
    /\ normalize_set(data).raised = ""
    /\ ~HasOneOfThree(normalize_set(data).data)

\* C1: validation through the generate endpoint either fails and returns no
\* plan, or returns a plan with every set of the payload in place, each
\* having at least one of reps, seconds or a non-empty reps_text; a payload
\* with one set that has none of the three after normalization fails as a
\* whole.
C1_NoPartialPlan ==
    \A r \in Requests :
        Generated_Done(r) =>
            /\ response[r].status # 200 => response[r].plan = NoPlan
            /\ response[r].status = 200 =>
                  /\ gen[r].value.kind = "plan"
                  /\ SameLayout(gen[r].value.plan, response[r].plan)
                  /\ \A at \in SetIndex(response[r].plan) :
                        HasOneOfThree(SetAt(response[r].plan, at))
            /\ (/\ gen[r].value.kind = "plan"
                /\ \E at \in SetIndex(gen[r].value.plan) :
                      NoneOfThree(SetAt(gen[r].value.plan, at)))
                  => response[r].status # 200

\* C1 witness: a payload of two sets, one acceptable and one with none of
\* the three, was refused as a whole.
C1_Witness ==
    \E r \in Requests :
        /\ Generated_Done(r)
        /\ gen[r].value.kind = "plan"
        /\ Cardinality(SetIndex(gen[r].value.plan)) = 2
        /\ \E at \in SetIndex(gen[r].value.plan) :
              NoneOfThree(SetAt(gen[r].value.plan, at))
        /\ \E at \in SetIndex(gen[r].value.plan) :
              HasOneOfThree(normalize_set(SetAt(gen[r].value.plan, at)).data)
        /\ response[r].status = 502
        /\ response[r].plan = NoPlan

\* C2 (as claimed): a generation ends with the configuration error
\* (ValueError, HTTP 500) exactly when no API key is configured.
C2_ConfigErrorIffNoKey ==
    \A r \in Requests :
        Generated_Done(r) =>
            /\ (~settingsKey) <=> (gen[r].exc.type = "ValueError")
            /\ (~settingsKey) <=> (response[r].status = 500)

\* C3 (as claimed): when the call of the model raises, whatever the class
\* of the exception, or returns empty text, generate_workout_plan fails with
\* the generation error, not the configuration or the parse error.
C3_ExternalFailureIsGenerationError ==
    \A r \in Requests :
        (Generated_Done(r) /\ (ext[r].raises # "" \/ ext[r].text = <<>>)) =>
            /\ gen[r].exc.type = "RuntimeError"
            /\ gen[r].exc.msg # "Invalid JSON from Gemini"

\* the kinds of failure, as the caller of the endpoint can tell them apart
IsConfiguration(resp) == resp.status = 500 /\ resp.detail # "Internal server error"
IsParse(resp) == resp.status = 502 /\ resp.detail = "Invalid JSON from Gemini"
IsValidation(resp) ==
    resp.status = 502 /\ resp.detail = "Generated workout plan failed validation"
IsGeneration(resp) == resp.status = 502 /\ ~IsParse(resp) /\ ~IsValidation(resp)
IsPrecondition(resp) == resp.status = 400
IsNotFound(resp) == resp.status = 404

FiveKinds(resp) ==
    {k \in {"configuration", "generation", "parse", "validation", "precondition"} :
        \/ k = "configuration" /\ IsConfiguration(resp)
        \/ k = "generation" /\ IsGeneration(resp)
        \/ k = "parse" /\ IsParse(resp)
        \/ k = "validation" /\ IsValidation(resp)
        \/ k = "precondition" /\ IsPrecondition(resp)}

SixKinds(resp) ==
    FiveKinds(resp) \cup {k \in {"not found"} : IsNotFound(resp)}

\* C4 (as claimed): every failure of generate is exactly one of the five
\* kinds, and only a ValueError or a RuntimeError leaves
\* generate_workout_plan.
C4_FiveKindsOnly ==
    \A r \in Requests :
        (pc[r] = "done" /\ response[r].status # 200) =>
            /\ Cardinality(FiveKinds(response[r])) = 1
            /\ gen[r].exc.type \in {"", "ValueError", "RuntimeError"}

\* C4 (amended): every failure of generate is exactly one of the five kinds
\* or the not-found error (HTTP 404) of a client_id that is not a client of
\* the trainer, and only a ValueError or a RuntimeError leaves
\* generate_workout_plan.
C4_SixKinds ==
    \A r \in Requests :
        (pc[r] = "done" /\ response[r].status # 200) =>
            /\ Cardinality(SixKinds(response[r])) = 1
            /\ gen[r].exc.type \in {"", "ValueError", "RuntimeError"}

\* C4 witness: the library raised an exception that is neither a ValueError
\* nor a RuntimeError, and the request ended as a generation error.
C4_Witness ==
    \E r \in Requests :
        /\ Generated_Done(r)
        /\ ext[r].raises = "Exception"
        /\ gen[r].exc.type = "RuntimeError"
        /\ SixKinds(response[r]) = {"generation"}

\* C5: a request to the generate endpoint calls the external model at most
\* once, on every path.
C5_AtMostOneCall == \A r \in Requests : calls[r] <= 1

\* C5 witness: a generation failed after its one call.
C5_Witness ==
    \E r \in Requests :
        pc[r] = "done" /\ calls[r] = 1 /\ response[r].status = 502

\* C6 (as claimed): while a request waits for the external model, another
\* request that has arrived can start.
C6_OthersProceedWhileAwaiting ==
    \A r \in Requests, q \in Requests :
        (pc[r] = "awaiting" /\ pc[q] = "ready") => ENABLED StartHandler(q)

\* the value of the documents the texts of the model carry
DocValue(body) == IF body = Doc_1 THEN JsonNum(1) ELSE JsonObj(1)

\* C7 (as claimed): valid JSON between an opening fence (with or without the
\* json tag) and a closing fence, with or without whitespace around the
\* fences, is returned parsed; so is valid JSON without fences.
C7_FencedJsonIsParsed ==
    \A r \in Requests :
        (Generated_Done(r) /\ ext[r].raises = "") =>
            \A pre \in OuterPads, post \in OuterPads, inner \in InnerPads,
               body \in {Doc_1, Doc_a1} :
                /\ \A open \in {Fence, FenceJson} :
                      ext[r].text = Wrap(pre, open, inner, body, Fence, post)
                          => gen[r] = Returned(DocValue(body))
                /\ ext[r].text = Wrap(pre, <<>>, inner, body, <<>>, post)
                      => gen[r] = Returned(DocValue(body))

\* the request failed with the parse error
ParseFailed(r) ==
    /\ Generated_Done(r)
    /\ ext[r].raises = ""
    /\ gen[r].exc.msg = "Invalid JSON from Gemini"

\* the text has no fence at either end and no whitespace around it
Bare(text) ==
    /\ ~StartsWith(text, Fence)
    /\ ~EndsWith(text, Fence)
    /\ Strip(text) = text

\* C8 (as claimed): the parse error carries the parser's diagnostic and a
\* snippet of at most 500 characters: the first 500 of the cleaned text when
\* that is longer, the full input text when the input is under 500.
C8_SnippetIsInput ==
    \A r \in Requests :
        ParseFailed(r) =>
            /\ gen[r].exc.diag = "JSONDecodeError"
            /\ Len(gen[r].exc.snippet) <= SnippetCap
            /\ Len(StripFences(ext[r].text)) > SnippetCap =>
                  gen[r].exc.snippet = SubSeq(StripFences(ext[r].text), 1, SnippetCap)
            /\ Len(ext[r].text) < SnippetCap => gen[r].exc.snippet = ext[r].text

\* C8 (amended): the snippet is the full text left after fence stripping
\* and trimming when that text has at most 500 characters, which is the
\* full input text for an input without fences and surrounding whitespace;
\* the response carries the same diagnostic and snippet.
C8_SnippetIsCleanedText ==
    \A r \in Requests :
        ParseFailed(r) =>
            /\ gen[r].exc.diag = "JSONDecodeError"
            /\ Len(gen[r].exc.snippet) <= SnippetCap
            /\ Len(StripFences(ext[r].text)) > SnippetCap =>
                  gen[r].exc.snippet = SubSeq(StripFences(ext[r].text), 1, SnippetCap)
            /\ Len(StripFences(ext[r].text)) <= SnippetCap =>
                  gen[r].exc.snippet = StripFences(ext[r].text)
            /\ (Bare(ext[r].text) /\ Len(ext[r].text) < SnippetCap) =>
                  gen[r].exc.snippet = ext[r].text
            /\ response[r].snippet = gen[r].exc.snippet
            /\ response[r].diag = gen[r].exc.diag

\* C8 witness: a text of 501 characters that is not JSON was cut to its
\* first 500.
C8_Witness ==
    \E r \in Requests :
        /\ ParseFailed(r)
        /\ ext[r].text = Garbage(SnippetCap + 1)
        /\ response[r].snippet = Garbage(SnippetCap)

\* the raw value yields an integer: a number, or a string with a digit
YieldsInt(v) ==
    \/ v.t \in {"int", "float"}
    \/ (v.t = "str" /\ \E k \in 1..Len(v.s) : v.s[k] \in Digits)

\* C9 (as claimed): when the raw reps is a native integer N, normalization
\* yields reps = N, seconds = None and reps_text = None, whatever the other
\* fields.
C9_IntRepsAlone ==
    (normPc = "done" /\ rawSet.reps.t = "int") =>
        /\ setResult.n.raised = ""
        /\ setResult.n.data.reps = rawSet.reps
        /\ setResult.n.data.seconds = PyNone
        /\ setResult.n.data.reps_text = PyNone

\* C9 (amended): when the raw reps is a native integer N, normalization
\* yields reps = N; seconds is the integer the raw seconds field yields
\* (None only when it yields none) and reps_text, notes and weight are left
\* as supplied (reps_text None only when none was supplied).
C9_IntRepsKept ==
    (normPc = "done" /\ rawSet.reps.t = "int") =>
        /\ setResult.n.raised = ""
        /\ setResult.n.data.reps = rawSet.reps
        /\ ~YieldsInt(rawSet.seconds) => setResult.n.data.seconds = PyNone
        /\ YieldsInt(rawSet.seconds) => setResult.n.data.seconds.t = "int"
        /\ rawSet.seconds.t = "int" => setResult.n.data.seconds = rawSet.seconds
        /\ setResult.n.data.reps_text = rawSet.reps_text
        /\ setResult.n.data.notes = rawSet.notes
        /\ setResult.n.data.weight = rawSet.weight

\* C9 witness: integer reps next to seconds, timed notes and a supplied
\* reps_text.
C9_Witness ==
    /\ normPc = "done"
    /\ rawSet.reps = PyInt(MaxReps)
    /\ rawSet.seconds = PyInt(30)
    /\ rawSet.notes = PyStr(T_hold45)
    /\ rawSet.reps_text = PyStr(T_max)
    /\ setResult.n.data.reps = PyInt(MaxReps)
    /\ setResult.n.data.seconds = PyInt(30)
    /\ setResult.n.data.reps_text = PyStr(T_max)

\* the value of the digits chars[lo..hi], read left to right
RECURSIVE PlaceValue(_, _, _, _)
PlaceValue(chars, lo, hi, acc) ==
    IF lo > hi THEN acc
    ELSE PlaceValue(chars, lo + 1, hi, 10 * acc + DigitVal(chars[lo]))

\* z is num/den truncated toward zero
TruncatedTowardZero(num, den, z) ==
    /\ num >= 0 => (z * den <= num /\ num < (z + 1) * den)
    /\ num < 0 => ((z - 1) * den < num /\ num <= z * den)

\* chars[lo..hi] is the first run of decimal digits of chars
FirstRunAt(chars, lo, hi) ==
    /\ lo <= hi
    /\ \A m \in 1..(lo - 1) : chars[m] \notin Digits
    /\ \A m \in lo..hi : chars[m] \in Digits
    /\ (hi = Len(chars) \/ chars[hi + 1] \notin Digits)

\* `out` is what the claim says integer extraction returns for `v`
ExtractsAsClaimed(v, out) ==
    CASE v.t = "int" -> out = v
      [] v.t = "float" -> out.t = "int" /\ TruncatedTowardZero(v.i, v.d, out.i)
      [] v.t = "str" ->
            IF YieldsInt(v)
            THEN /\ out.t = "int"
                 /\ \E lo \in 1..Len(v.s), hi \in 1..Len(v.s) :
                       FirstRunAt(v.s, lo, hi) /\ out.i = PlaceValue(v.s, lo, hi, 0)
            ELSE out = PyNone
      [] OTHER -> out = PyNone

\* C10: integer extraction, applied alike to the raw reps and the raw
\* seconds, returns a native integer itself, a float truncated toward zero,
\* the first run of decimal digits of a string ("12 reps" -> 12, "30s" ->
\* 30, "8-10" -> 8), and no integer for None, a digit-free string or
\* another type.
C10_ExtractFirstInt ==
    normPc = "done" =>
        /\ ExtractsAsClaimed(rawSet.reps, setResult.reps_val)
        /\ ExtractsAsClaimed(rawSet.seconds, setResult.seconds_val)
        /\ rawSet.reps = PyStr(T_12reps) => setResult.reps_val = PyInt(12)
        /\ rawSet.reps = PyStr(T_30s) => setResult.reps_val = PyInt(30)
        /\ rawSet.reps = PyStr(T_8to10) => setResult.reps_val = PyInt(8)
        /\ rawSet.seconds = PyStr(T_45seconds) => setResult.seconds_val = PyInt(45)

\* C10 witness: "8-10" gave 8 and the float -1.5 gave -1.
C10_Witness ==
    /\ normPc = "done"
    /\ rawSet.reps = PyStr(T_8to10)
    /\ rawSet.seconds = PyFloat(-3, 2)
    /\ setResult.reps_val = PyInt(8)
    /\ setResult.seconds_val = PyInt(-1)

\* neither the raw reps nor the raw seconds yields an integer
NoNumber(data) == ~YieldsInt(data.reps) /\ ~YieldsInt(data.seconds)

\* the notes are a text in which "sec" occurs in any letter case ("second"
\* has it too)
Timed(notes) ==
    \E k \in 1..(Len(notes.s) - 2) :
        /\ notes.s[k] \in {"s", "S"}
        /\ notes.s[k + 1] \in {"e", "E"}
        /\ notes.s[k + 2] \in {"c", "C"}

\* C11: when neither reps nor seconds yields an integer and the notes are a
\* text with a digit run, the first run goes to seconds (reps None) if the
\* notes contain "sec" or "second" in any letter case, and to reps (seconds
\* None) otherwise; reps absent with notes "hold for 45 seconds" gives
\* seconds = 45, reps = None.
C11_NotesInference ==
    (/\ normPc = "done"
     /\ NoNumber(rawSet)
     /\ rawSet.notes.t = "str"
     /\ YieldsInt(rawSet.notes)) =>
        /\ setResult.n.raised = ""
        /\ Timed(rawSet.notes) =>
              /\ ExtractsAsClaimed(rawSet.notes, setResult.n.data.seconds)
              /\ setResult.n.data.reps = PyNone
        /\ ~Timed(rawSet.notes) =>
              /\ ExtractsAsClaimed(rawSet.notes, setResult.n.data.reps)
              /\ setResult.n.data.seconds = PyNone
        /\ (rawSet.reps = PyNone /\ rawSet.notes = PyStr(T_hold45)) =>
              /\ setResult.n.data.seconds = PyInt(45)
              /\ setResult.n.data.reps = PyNone

\* C11 witness: reps "AMRAP" and notes "30 SEC" gave seconds = 30.
C11_Witness ==
    /\ normPc = "done"
    /\ rawSet.reps = PyStr(T_AMRAP)
    /\ rawSet.seconds = PyNone
    /\ rawSet.notes = PyStr(T_30SEC)
    /\ setResult.n.data.seconds = PyInt(30)
    /\ setResult.n.data.reps = PyNone

\* the notes yield no integer: nothing for the inference to use
NotesGiveNoNumber(data) ==
    \/ ~Truthy(data.notes)
    \/ data.notes.t = "other"
    \/ (data.notes.t = "str" /\ ~YieldsInt(data.notes))

\* the raw reps is a non-empty string without digits, and neither seconds
\* nor the notes give a number
TextualReps(data) ==
    /\ data.reps.t = "str"
    /\ Len(data.reps.s) > 0
    /\ NoNumber(data)
    /\ NotesGiveNoNumber(data)

\* `out` is `chars` without its leading and trailing whitespace
Trimmed(chars, out) ==
    \E lo \in 1..Len(chars), hi \in 1..Len(chars) :
        /\ lo <= hi
        /\ out = SubSeq(chars, lo, hi)
        /\ chars[lo] \notin Whitespace
        /\ chars[hi] \notin Whitespace
        /\ \A m \in 1..(lo - 1) : chars[m] \in Whitespace
        /\ \A m \in (hi + 1)..Len(chars) : chars[m] \in Whitespace

\* C12 (as claimed): a raw reps that is a non-empty string without an
\* integer, with no number from seconds or notes, is kept character for
\* character as reps_text, reps and seconds are None and the set is
\* accepted.
C12_RepsTextVerbatim ==
    (normPc = "done" /\ TextualReps(rawSet)) =>
        /\ setResult.n.raised = ""
        /\ setResult.n.data.reps_text = rawSet.reps
        /\ setResult.n.data.reps = PyNone
        /\ setResult.n.data.seconds = PyNone
        /\ setResult.v.ok

\* C12 (amended): a raw reps that is a string with at least one character
\* that is not whitespace and without an integer, with no number from
\* seconds or notes, becomes reps_text with its leading and trailing
\* whitespace removed; reps and seconds are None, and the set is accepted
\* with that reps_text whenever its weight and notes pass their own field
\* validation.
C12_RepsTextStripped ==
    (/\ normPc = "done"
     /\ TextualReps(rawSet)
     /\ \E k \in 1..Len(rawSet.reps.s) : rawSet.reps.s[k] \notin Whitespace) =>
        /\ setResult.n.raised = ""
        /\ setResult.n.data.reps_text.t = "str"
        /\ Trimmed(rawSet.reps.s, setResult.n.data.reps_text.s)
        /\ setResult.n.data.reps = PyNone
        /\ setResult.n.data.seconds = PyNone
        /\ (OptionalIntOk(rawSet.weight) /\ OptionalStrOk(rawSet.notes)) =>
              /\ setResult.v.ok
              /\ setResult.v.set.reps_text = setResult.n.data.reps_text
              /\ setResult.v.set.reps = PyNone
              /\ setResult.v.set.seconds = PyNone

\* C12 witness: reps " to failure " was accepted with reps_text
\* "to failure".
C12_Witness ==
    /\ normPc = "done"
    /\ rawSet.reps = PyStr(T_tofailure)
    /\ rawSet.notes = PyStr(T_easy)
    /\ setResult.v.ok
    /\ setResult.v.set.reps_text = PyStr(Strip(T_tofailure))
    /\ Len(setResult.v.set.reps_text.s) = Len(T_tofailure) - 2

\* the notes are a text with one of the prescription keywords
HasKeyword(notes) ==
    notes.t = "str" /\ \E k \in Keywords : Contains(Lower(notes.s), k)

\* C13 (as claimed): with no number from reps, seconds or notes, the notes
\* become reps_text only when no reps_text is there already (none supplied,
\* none taken from a reps string) and the notes have a keyword; a reps_text
\* that is there is never replaced by the notes, and notes without a keyword
\* produce none.
C13_NotesKeywordOnlyWhenAllAbsent ==
    (/\ normPc = "done"
     /\ NoNumber(rawSet)
     /\ NotesGiveNoNumber(rawSet)
     /\ setResult.n.raised = "") =>
        /\ (rawSet.reps.t # "str" /\ Truthy(rawSet.reps_text)) =>
              setResult.n.data.reps_text = rawSet.reps_text
        /\ (rawSet.reps.t # "str" /\ ~Truthy(rawSet.reps_text)
                /\ HasKeyword(rawSet.notes)) =>
              setResult.n.data.reps_text = PyStr(Strip(rawSet.notes.s))
        /\ (rawSet.reps.t # "str" /\ ~HasKeyword(rawSet.notes)) =>
              setResult.n.data.reps_text = rawSet.reps_text

\* a raw set with reps, seconds and notes all None
BareSet(set) == set.reps = PyNone /\ set.seconds = PyNone /\ set.notes = PyNone

\* the payload of request r is a plan with a set for which P holds
PayloadHasSet(r, P(_)) ==
    /\ Generated_Done(r)
    /\ gen[r].value.kind = "plan"
    /\ \E at \in SetIndex(gen[r].value.plan) : P(SetAt(gen[r].value.plan, at))

BareSetNoText(set) == BareSet(set) /\ ~Truthy(set.reps_text)

C15_RevalidationIsIdentity ==
    \A r \in Requests :
        (Generated_Done(r) /\ response[r].status = 200) =>
            ValidatePlan(JsonPlan(DumpPlan(response[r].plan)))
                = PlanOk(response[r].plan)

\* C16: a validation failure of the parsed plan reaches the caller with a
\* detail that neither a parse error nor a generation error carries: the
\* response is of the validation kind exactly when generate_workout_plan
\* returned and the plan was refused, of the parse kind exactly when the
\* text was not JSON, and of the generation kind for every other
\* RuntimeError.
C16_ValidationDistinct ==
    \A r \in Requests :
        (Generated_Done(r) /\ response[r].status # 200) =>
            /\ IsValidation(response[r]) <=> gen[r].exc.type = ""
            /\ IsParse(response[r]) <=>
                  (gen[r].exc.type = "RuntimeError"
                       /\ gen[r].exc.msg = "Invalid JSON from Gemini")
            /\ IsGeneration(response[r]) <=>
                  (gen[r].exc.type = "RuntimeError"
                       /\ gen[r].exc.msg # "Invalid JSON from Gemini")
            /\ IsValidation(response[r]) =>
                  ~IsParse(response[r]) /\ ~IsGeneration(response[r])

\* C16 witness: the text was the JSON number 1, which is no plan: the
\* request ended with the validation failure.
C16_Witness ==
    \E r \in Requests :
        /\ Generated_Done(r)
        /\ gen[r] = Returned(JsonNum(1))
        /\ IsValidation(response[r])
        /\ ~IsParse(response[r])

\* the step in which request r calls the model, and the step in which its
\* handler starts
CallsModel(r) == pc[r] = "ready" /\ pc'[r] = "awaiting"
Starts(r) == pc[r] = "ready" /\ pc'[r] # "ready"

\* the active exercises the trainer owns, and the global ones
Accessible(trainer) ==
    {e \in exercises : e.is_active /\ (e.trainer_id = trainer \/ e.trainer_id = 0)}

\* the client named by the request is missing or is not the trainer's
ClientMissing(q) ==
    q.client_id # 0 /\ ~\E c \in clients : c.id = q.client_id /\ c.trainer_id = q.trainer

\* C17 (as claimed): when the trainer has no accessible active exercise,
\* generate ends with HTTP 400 and the model is not called.
C17_EmptyCatalogIs400 ==
    [][\A r \in Requests :
          (Starts(r) /\ Accessible(req'[r].trainer) = {}) =>
              /\ pc'[r] = "done"
              /\ response'[r].status = 400
              /\ calls'[r] = 0
              /\ prompt'[r] = NoPrompt]_vars

\* C17 (amended): when the trainer has no accessible active exercise and the
\* request names no client or a client of the trainer, generate ends with
\* HTTP 400; when it names a client that is not the trainer's it ends with
\* HTTP 404; on both paths no prompt is built and the model is not called.
C17_EmptyCatalogIs400UnlessNoClient ==
    [][\A r \in Requests :
          (Starts(r) /\ Accessible(req'[r].trainer) = {}) =>
              /\ pc'[r] = "done"
              /\ response'[r].status = IF ClientMissing(req'[r]) THEN 404 ELSE 400
              /\ response'[r].status = 400 => IsPrecondition(response'[r])
              /\ response'[r].plan = NoPlan
              /\ calls'[r] = 0
              /\ prompt'[r] = NoPrompt]_vars

\* C17 witness: the first trainer, whose one exercise is inactive while the
\* second trainer has an active one, was answered 400 without a call.
C17_Witness ==
    \E r \in Requests :
        /\ pc[r] = "done"
        /\ req[r].trainer = 1
        /\ \E e \in exercises : e.trainer_id = 1 /\ ~e.is_active
        /\ \E e \in exercises : e.trainer_id = 2 /\ e.is_active
        /\ Accessible(1) = {}
        /\ response[r].status = 400
        /\ calls[r] = 0

\* the lines of the prompt that list an exercise
ExerciseLinesOf(p) == {k \in DOMAIN p : Len(p[k]) > 0 /\ p[k][1] = "- id: "}

\* the line holds the piece of text
HasPiece(line, piece) == \E i \in DOMAIN line : line[i] = piece

\* C18: the catalog listed in the prompt of a trainer holds exactly the
\* active exercises that the trainer owns or that are global: no exercise
\* of another trainer and no inactive exercise, whatever creates, updates,
\* deletes and seedings came before.
C18_CatalogIsAccessibleActive ==
    [][\A r \in Requests :
          CallsModel(r) =>
              /\ {prompt'[r][k][2] : k \in ExerciseLinesOf(prompt'[r])}
                    = {e.id : e \in Accessible(req'[r].trainer)}
              /\ \A k \in ExerciseLinesOf(prompt'[r]) :
                    \A e \in exercises :
                        e.id = prompt'[r][k][2] =>
                            /\ e.is_active
                            /\ e.trainer_id \in {0, req'[r].trainer}]_vars

\* C18 witness: the first trainer's prompt lists the global exercise and
\* their active one, while the table also holds an inactive exercise of
\* theirs and an active one of the second trainer.
C18_Witness ==
    \E r \in Requests :
        /\ pc[r] = "awaiting"
        /\ req[r].trainer = 1
        /\ \E e \in exercises : e.trainer_id = 1 /\ ~e.is_active
        /\ \E e \in exercises : e.trainer_id = 2 /\ e.is_active
        /\ \E e \in exercises : e.trainer_id = 0
        /\ Cardinality(Accessible(1)) = 2
        /\ {prompt[r][k][2] : k \in ExerciseLinesOf(prompt[r])}
              = {e.id : e \in Accessible(1)}

\* C19: for a collection with at least one accessible active exercise, the
\* catalog section has one line per exercise, none missing and none twice,
\* in ascending order of name; the line of an exercise holds its id and
\* its name, and has a tags part, with every tag, exactly when the exercise
\* has a tag.
C19_OneLinePerExercise ==
    [][\A r \in Requests :
          (Starts(r) /\ ~ClientMissing(req'[r])
               /\ Accessible(req'[r].trainer) # {}) =>
              /\ CallsModel(r)
              /\ Cardinality(ExerciseLinesOf(prompt'[r]))
                    = Cardinality(Accessible(req'[r].trainer))
              /\ \A e \in Accessible(req'[r].trainer) :
                    \E k \in ExerciseLinesOf(prompt'[r]) :
                        /\ prompt'[r][k][2] = e.id
                        /\ prompt'[r][k][4] = e.name
                        /\ HasPiece(prompt'[r][k], ", tags: ") <=> Len(e.tags) > 0
                        /\ \A i \in DOMAIN e.tags : HasPiece(prompt'[r][k], e.tags[i])
                        /\ \A m \in ExerciseLinesOf(prompt'[r]) :
                              prompt'[r][m][2] = e.id => m = k
              /\ \A k \in ExerciseLinesOf(prompt'[r]), m \in ExerciseLinesOf(prompt'[r]) :
                    k < m => NameRank(prompt'[r][k][4]) <= NameRank(prompt'[r][m][4])]_vars

\* C19 witness: a catalog of three lines, two of them for exercises of the
\* same name, one with tags and one without, the third for a later name.
C19_Witness ==
    \E r \in Requests :
        /\ pc[r] = "awaiting"
        /\ Cardinality(ExerciseLinesOf(prompt[r])) = 3
        /\ \E k \in ExerciseLinesOf(prompt[r]) :
              /\ prompt[r][k][4] = "Bench"
              /\ HasPiece(prompt[r][k], ", tags: ")
              /\ prompt[r][k + 1][4] = "Bench"
              /\ ~HasPiece(prompt[r][k + 1], ", tags: ")
              /\ prompt[r][k + 2][4] = "Curl"

\* where the heading is in the prompt
HeadAt(p, h) == CHOOSE k \in DOMAIN p : p[k] = <<h>>

\* the line that begins with the label
LabelAt(p, label) == CHOOSE k \in DOMAIN p : Len(p[k]) > 0 /\ p[k][1] = label

\* the first piece of every line
Labels(lines) == [k \in DOMAIN lines |-> IF Len(lines[k]) > 0 THEN lines[k][1] ELSE ""]

\* the labels of the client lines the client's fields call for
ClientLabels(client) ==
    <<"Client name: ">>
        \o (IF Len(client.notes) > 0 THEN <<"Client notes: ">> ELSE <<>>)
        \o (IF Len(client.injury_flags) > 0 THEN <<"Injuries: ">> ELSE <<>>)
        \o (IF client.preferences_json # "" THEN <<"Preferences: ">> ELSE <<>>)

\* the labels of the constraint lines the body calls for
ConstraintLabels(payload) ==
    <<"Focus subsets: ">>
        \o (IF Truthy(payload.session_length_minutes) THEN <<"Session length: ">> ELSE <<>>)
        \o (IF Len(payload.equipment_available) > 0
            THEN <<"Equipment available: ">> ELSE <<>>)
        \o (IF Truthy(payload.notes) THEN <<"Trainer notes: ">> ELSE <<>>)

\* the sections of prompt p, for request q, client c and the accessible
\* exercises `rows`
SectionsInOrder(p, q, c, rows) ==
    /\ \A h \in {"### RULES", "### CONTEXT", "### SCHEMA", "### AVAILABLE EXERCISES",
                 "### INSTRUCTION"} : Cardinality({k \in DOMAIN p : p[k] = <<h>>}) = 1
    /\ Cardinality({k \in DOMAIN p : Len(p[k]) > 0 /\ p[k][1] = "Focus subsets: "}) = 1
    /\ HeadAt(p, "### RULES") < HeadAt(p, "### CONTEXT")
    /\ HeadAt(p, "### CONTEXT") < LabelAt(p, "Focus subsets: ")
    /\ LabelAt(p, "Focus subsets: ") < HeadAt(p, "### SCHEMA")
    /\ HeadAt(p, "### SCHEMA") < HeadAt(p, "### AVAILABLE EXERCISES")
    /\ HeadAt(p, "### AVAILABLE EXERCISES") < HeadAt(p, "### INSTRUCTION")
    \* the rules
    /\ \E k \in (HeadAt(p, "### RULES") + 1)..(HeadAt(p, "### CONTEXT") - 1) :
          p[k] = <<"- USE ONLY the exercises provided in the list.">>
    /\ \E k \in (HeadAt(p, "### RULES") + 1)..(HeadAt(p, "### CONTEXT") - 1) :
          p[k] = <<"- Return ONLY JSON. No commentary.">>
    \* the client
    /\ Labels(SubSeq(p, HeadAt(p, "### CONTEXT") + 1, LabelAt(p, "Focus subsets: ") - 1))
          = IF q.client_id = 0 THEN <<"Client: Not specified">> ELSE ClientLabels(c)
    /\ q.client_id # 0 =>
          /\ p[HeadAt(p, "### CONTEXT") + 1] = <<"Client name: ", c.name>>
          /\ \A i \in DOMAIN c.injury_flags :
                HasPiece(p[LabelAt(p, "Injuries: ")], c.injury_flags[i])
    \* the constraints
    /\ Labels(SubSeq(p, LabelAt(p, "Focus subsets: "), HeadAt(p, "### SCHEMA") - 2))
          = ConstraintLabels(q.payload)
    /\ \A i \in DOMAIN q.payload.focus_subsets :
          HasPiece(p[LabelAt(p, "Focus subsets: ")], q.payload.focus_subsets[i])
    \* the schema
    /\ p[HeadAt(p, "### SCHEMA") + 1]
          = <<"The output must be a JSON object matching this structure:">>
    /\ HeadAt(p, "### AVAILABLE EXERCISES") = HeadAt(p, "### SCHEMA") + 26
    \* the catalog
    /\ ExerciseLinesOf(p)
          = (HeadAt(p, "### AVAILABLE EXERCISES") + 1)..(HeadAt(p, "### INSTRUCTION") - 2)
    /\ \A e \in rows : \E k \in ExerciseLinesOf(p) : HasPiece(p[k], e.id)
    \* the instructions
    /\ p[Len(p)] = <<"RETURN ONLY VALID JSON.">>
    /\ Len(p) = HeadAt(p, "### INSTRUCTION") + 7

\* the rows the catalog lines of p name, in the order of the lines
ListingOf(p) ==
    [k \in 1..Cardinality(ExerciseLinesOf(p)) |->
        CHOOSE e \in exercises :
            e.id = p[HeadAt(p, "### AVAILABLE EXERCISES") + k][2]]

\* the client record the request stands for
ClientOf(q) ==
    IF q.client_id = 0 THEN NoClient
    ELSE CHOOSE c \in clients : c.id = q.client_id /\ c.trainer_id = q.trainer

\* C20: the prompt has its sections in the order rules, client context (or
\* the one "not specified" line), focus subsets, session length, equipment
\* and trainer notes when supplied, schema, catalog, instructions; it holds
\* every injury flag, every focus subset and every catalog id; and it is
\* fixed by the request, the client and the catalog in the order listed.
C20_PromptSections ==
    [][\A r \in Requests :
          CallsModel(r) =>
              /\ SectionsInOrder(prompt'[r], req'[r], ClientOf(req'[r]),
                                 Accessible(req'[r].trainer))
              /\ prompt'[r] = BuildPrompt(req'[r].payload, ClientOf(req'[r]),
                                          ListingOf(prompt'[r]))]_vars

\* C20 witness: the prompt for the client with two injury flags, a body with
\* every optional field and a catalog of three exercises.
C20_Witness ==
    \E r \in Requests :
        /\ pc[r] = "awaiting"
        /\ req[r] = Request(1, 1, FullPayload)
        /\ Cardinality(ExerciseLinesOf(prompt[r])) = 3
        /\ HasPiece(prompt[r][LabelAt(prompt[r], "Injuries: ")], "shoulder")
        /\ HasPiece(prompt[r][LabelAt(prompt[r], "Injuries: ")], "knee")
        /\ HasPiece(prompt[r][LabelAt(prompt[r], "Focus subsets: ")], "core")
        /\ LabelAt(prompt[r], "Trainer notes: ") < HeadAt(prompt[r], "### SCHEMA")

\* C21: validation succeeds only if every block's block_type is one of
\* straight, superset, circuit; a plan with a block of another type
\* (triset, warmup, finisher, or a spelling in another letter case) fails
\* as a whole, with the validation error and no plan.
C21_BlockTypeOneOfThree ==
    \A r \in Requests :
        (Generated_Done(r) /\ gen[r].value.kind = "plan") =>
            /\ response[r].status = 200 =>
                  /\ \A b \in DOMAIN gen[r].value.plan.blocks :
                        gen[r].value.plan.blocks[b].block_type
                            \in {"straight", "superset", "circuit"}
                  /\ \A b \in DOMAIN response[r].plan.blocks :
                        response[r].plan.blocks[b].block_type
                            = gen[r].value.plan.blocks[b].block_type
            /\ (\E b \in DOMAIN gen[r].value.plan.blocks :
                    gen[r].value.plan.blocks[b].block_type
                        \notin {"straight", "superset", "circuit"}) =>
                  /\ IsValidation(response[r])
                  /\ response[r].plan = NoPlan

\* C21 witness: a plan whose first block is a superset and whose second is
\* spelled "Straight", both with a valid set, was refused.
C21_Witness ==
    \E r \in Requests :
        /\ Generated_Done(r)
        /\ gen[r].value.kind = "plan"
        /\ Len(gen[r].value.plan.blocks) = 2
        /\ gen[r].value.plan.blocks[1].block_type = "superset"
        /\ gen[r].value.plan.blocks[2].block_type = "Straight"
        /\ gen[r].value.plan.blocks[2].exercises[1].sets = <<GoodSet>>
        /\ IsValidation(response[r])
        /\ response[r].plan = NoPlan

\* the declared fields of the four models
PlanKeys == {"name", "focus_subsets", "muscles_targeted", "blocks"}
BlockKeys == {"block_type", "rest_seconds", "exercises"}
ExerciseKeys == {"exercise_id", "sets"}
SetKeys == {"reps", "seconds", "weight", "notes", "reps_text"}

\* the dict without the keys that are not in `keys`
Only(dict, keys) == [key \in DOMAIN dict \cap keys |-> dict[key]]

\* the raw plan without its undeclared keys, at every level
WithoutExtras(plan) ==
    [Only(plan, PlanKeys) EXCEPT !.blocks =
        [b \in DOMAIN plan.blocks |->
            [Only(plan.blocks[b], BlockKeys) EXCEPT !.exercises =
                [e \in DOMAIN plan.blocks[b].exercises |->
                    [Only(plan.blocks[b].exercises[e], ExerciseKeys) EXCEPT !.sets =
                        [k \in DOMAIN plan.blocks[b].exercises[e].sets |->
                            Only(plan.blocks[b].exercises[e].sets[k], SetKeys)]]]]]]

\* the plan has an undeclared key at some level
HasExtras(plan) == WithoutExtras(plan) # plan

\* the returned plan has the declared keys and no other, at every level
DeclaredKeysOnly(plan) ==
    /\ DOMAIN plan = PlanKeys
    /\ \A b \in DOMAIN plan.blocks :
          /\ DOMAIN plan.blocks[b] = BlockKeys
          /\ \A e \in DOMAIN plan.blocks[b].exercises :
                /\ DOMAIN plan.blocks[b].exercises[e] = ExerciseKeys
                /\ \A k \in DOMAIN plan.blocks[b].exercises[e].sets :
                      DOMAIN plan.blocks[b].exercises[e].sets[k] = SetKeys

\* C22: keys outside the schema, at the level of the plan, a block, a
\* block-exercise or a set, are ignored: the payload and the payload without
\* them have the same outcome (both refused, or both accepted with equal
\* plans), and the returned plan has no key outside the schema.
C22_ExtraFieldsIgnored ==
    \A r \in Requests :
        (Generated_Done(r) /\ gen[r].value.kind = "plan") =>
            /\ response[r] = ValidateAndRespond(JsonPlan(WithoutExtras(gen[r].value.plan)))
            /\ response[r].status = 200 => DeclaredKeysOnly(response[r].plan)

\* C22 witness: a payload with an undeclared key at each of the four levels
\* was accepted, and the plan returned is the one its payload without those
\* keys gives.
C22_Witness ==
    \E r \in Requests :
        /\ Generated_Done(r)
        /\ gen[r].value.kind = "plan"
        /\ "difficulty" \in DOMAIN gen[r].value.plan
        /\ "difficulty" \in DOMAIN gen[r].value.plan.blocks[1]
        /\ "difficulty" \in DOMAIN gen[r].value.plan.blocks[1].exercises[1]
        /\ "difficulty" \in DOMAIN gen[r].value.plan.blocks[1].exercises[1].sets[1]
        /\ response[r].status = 200
        /\ response[r].plan = ValidatePlan(JsonPlan(PlanWithExtras(GoodSet, {}))).plan

\* the step in which the call of the model made by request r ends
ModelAnswers(r) == pc[r] = "awaiting" /\ pc'[r] = "done"

\* the exercises of the plan, by position
ExerciseIndex(plan) ==
    UNION { {<<b, e>> : e \in DOMAIN plan.blocks[b].exercises} : b \in DOMAIN plan.blocks }

\* the ids listed in the prompt
ListedIds(p) == {p[k][2] : k \in ExerciseLinesOf(p)}

\* the plan with every exercise_id that is a string replaced by `id`
WithId(plan, id) ==
    [plan EXCEPT !.blocks =
        [b \in DOMAIN plan.blocks |->
            [plan.blocks[b] EXCEPT !.exercises =
                [e \in DOMAIN plan.blocks[b].exercises |->
                    [plan.blocks[b].exercises[e] EXCEPT !.exercise_id =
                        IF @.t = "str" THEN PyStr(id) ELSE @]]]]]

\* C23: validation and the generate operation accept any string as the
\* exercise_id of a block-exercise without looking at the catalog: the
\* outcome is the one of the same plan naming an exercise listed in the
\* prompt, and an accepted plan comes back with every exercise_id as it was
\* sent, be it the id of no exercise or of an exercise of another trainer.
C23_ExerciseIdNotCrossChecked ==
    [][\A r \in Requests :
          (ModelAnswers(r) /\ gen'[r].value.kind = "plan") =>
              /\ ListedIds(prompt[r]) # {}
              /\ \A id \in ListedIds(prompt[r]) :
                    (response'[r].status = 200)
                        <=> ValidatePlan(JsonPlan(WithId(gen'[r].value.plan,
                                                         IdChars[id]))).ok
              /\ response'[r].status = 200 =>
                    /\ ExerciseIndex(response'[r].plan) = ExerciseIndex(gen'[r].value.plan)
                    /\ \A at \in ExerciseIndex(gen'[r].value.plan) :
                          response'[r].plan.blocks[at[1]].exercises[at[2]].exercise_id
                              = gen'[r].value.plan.blocks[at[1]].exercises[at[2]].exercise_id
              /\ gen'[r].value.plan \in PlansByIds =>
                    /\ response'[r].status = 200
                    /\ response'[r].plan = gen'[r].value.plan]_vars

\* C23 witness: the first trainer, whose catalog is their one exercise, was
\* returned a plan naming the exercise of the second trainer and an id of
\* no exercise.
C23_Witness ==
    \E r \in Requests :
        /\ Generated_Done(r)
        /\ req[r].trainer = 1
        /\ {e.id : e \in Catalog(1)} = {"a1"}
        /\ \E e \in exercises : e.id = "b1" /\ e.trainer_id = 2
        /\ response[r].status = 200
        /\ Len(response[r].plan.blocks) = 1
        /\ Len(response[r].plan.blocks[1].exercises) = 2
        /\ response[r].plan.blocks[1].exercises[1].exercise_id = PyStr(IdChars["b1"])
        /\ response[r].plan.blocks[1].exercises[2].exercise_id = PyStr(T_zz)

\* a step of the generate operation for request r: arrival, the handler up
\* to the call of the model or to its refusal, the end of the call, delivery
GenerateStep(r) == pc'[r] # pc[r]

C29_NotesNeverOverride ==
    (normPc = "done" /\ (YieldsInt(rawSet.reps) \/ YieldsInt(rawSet.seconds))) =>
        /\ setResult.n.raised = ""
        /\ ExtractsAsClaimed(rawSet.reps, setResult.n.data.reps)
        /\ ExtractsAsClaimed(rawSet.seconds, setResult.n.data.seconds)
        /\ ~YieldsInt(rawSet.reps) => setResult.n.data.reps = PyNone
        /\ ~YieldsInt(rawSet.seconds) => setResult.n.data.seconds = PyNone
        /\ setResult.n.data.reps_text = rawSet.reps_text
        /\ setResult.n.data.weight = rawSet.weight
        /\ setResult.n.data.notes = rawSet.notes

\* C29 witness: reps "12 reps" next to the notes "hold for 45 seconds" gave
\* reps = 12 and no seconds, and no fallback text.
C29_Witness ==
    /\ normPc = "done"
    /\ rawSet.reps = PyStr(T_12reps)
    /\ rawSet.seconds = PyNone
    /\ rawSet.notes = PyStr(T_hold45)
    /\ rawSet.reps_text = PyNone
    /\ setResult.n.data.reps = PyInt(12)
    /\ setResult.n.data.seconds = PyNone
    /\ setResult.n.data.reps_text = PyNone
    /\ setResult.n.data.notes = PyStr(T_hold45)

(***************************************************************************)
(* The trainer of a request: core/auth.py                                  *)
(***************************************************************************)
\* what firebase_auth.verify_id_token makes of a bearer token: it raises
\* (valid FALSE) or returns the claims, of which uid and email may be
\* missing ("")
Token(valid, uid, email) == [valid |-> valid, uid |-> uid, email |-> email]

Tokens ==
    {Token(valid, uid, email) :
        valid \in BOOLEAN, uid \in {""} \cup {Uids[k] : k \in DOMAIN Uids},
        email \in {"", "e1", "e2"}}

\* a row of the trainers table
TrainerRow(id, firebase_uid, email) ==
    [id |-> id, firebase_uid |-> firebase_uid, email |-> email]

\* select(Trainer).where(Trainer.firebase_uid == firebase_uid)
TrainersOf(firebase_uid) == {t \in trainers : t.firebase_uid = firebase_uid}

\* the ids uuid4() has not handed out yet
FreeTrainerIds == (1..Len(Uids)) \ {t.id : t \in trainers}

\* get_current_trainer: 401 for a token that does not verify or has no
\* uid; the trainer of the uid when there is one; else a new row, which
\* the NOT NULL email column refuses when the token has no email
get_current_trainer(token) ==
    IF ~ token.valid \/ token.uid = ""
    THEN /\ trainers' = trainers
         /\ Record(Status("get_current_trainer", 0, token.uid, 401))
    ELSE IF TrainersOf(token.uid) # {}
    THEN /\ trainers' = trainers
         /\ Record(Status("get_current_trainer",
                          (CHOOSE t \in TrainersOf(token.uid) : TRUE).id, token.uid, 200))
    ELSE IF token.email = ""
    THEN /\ trainers' = trainers
         /\ Record(Status("get_current_trainer", 0, token.uid, 500))
    ELSE /\ FreeTrainerIds # {}
         /\ LET id == CHOOSE k \in FreeTrainerIds : TRUE
            IN  /\ trainers' = trainers \cup {TrainerRow(id, token.uid, token.email)}
                /\ Record(Status("get_current_trainer", id, token.uid, 200))

\* get_current_trainer is a coroutine without an await: the requests of
\* one server run it one after the other
Authenticate(token) ==
    /\ get_current_trainer(token)
    /\ UNCHANGED <<pipelineVars, normVars, workouts, recording>>

\* a server without a trainer yet
InitAuth ==
    /\ settingsKey = FALSE
    /\ clients = {}
    /\ exercises = {}
    /\ incoming = {}
    /\ RequestsIdle
    /\ workouts = {}
    /\ trainers = {}
    /\ reply = NoAnswer
    /\ recording = TRUE
    /\ normPc = "off"
    /\ rawSet = NoSet
    /\ setResult = NoSetResult

NextAuth == \E token \in Tokens : Authenticate(token)

SpecAuth == InitAuth /\ [][NextAuth]_vars

(***************************************************************************)
(* C30: get_current_trainer is a get-or-create keyed by firebase uid       *)
(***************************************************************************)
\* at most one row of the trainers table has a given firebase uid
OneRowPerUid(rows) ==
    \A t \in rows, u \in rows : t.firebase_uid = u.firebase_uid => t = u

\* C30: at most one Trainer row exists per firebase uid; every request with
\* a valid token that has a uid is answered with the trainer of that uid,
\* none fails; a request with an invalid token or a token without uid is
\* answered 401 and creates no trainer.
C30_GetOrCreateByUid ==
    [][ \A token \in Tokens : Authenticate(token) =>
            /\ OneRowPerUid(trainers')
            /\ (token.valid /\ token.uid # "") =>
                   /\ reply'.status = 200
                   /\ \E t \in trainers' :
                         t.firebase_uid = token.uid /\ t.id = reply'.trainer
            /\ ~ (token.valid /\ token.uid # "") =>
                   /\ reply'.status = 401
                   /\ trainers' = trainers ]_vars

\* what holds: the same for the tokens that carry an email or whose uid
\* has a trainer already; the others are answered 500 and store nothing
C30_GetOrCreateByUidWithEmail ==
    [][ \A token \in Tokens : Authenticate(token) =>
            /\ OneRowPerUid(trainers')
            /\ \A t \in trainers : t \in trainers'
            /\ (token.valid /\ token.uid # ""
                  /\ (token.email # "" \/ TrainersOf(token.uid) # {})) =>
                   /\ reply'.status = 200
                   /\ \E t \in trainers' :
                         t.firebase_uid = token.uid /\ t.id = reply'.trainer
            /\ (token.valid /\ token.uid # "" /\ token.email = ""
                  /\ TrainersOf(token.uid) = {}) =>
                   /\ reply'.status = 500
                   /\ trainers' = trainers
            /\ ~ (token.valid /\ token.uid # "") =>
                   /\ reply'.status = 401
                   /\ trainers' = trainers ]_vars

\* a first request with a valid token that has a uid and no email was
\* answered 500
C30_FirstRequestFailed ==
    /\ reply.op = "get_current_trainer"
    /\ reply.status = 500
    /\ reply.target = "u1"
    /\ TrainersOf("u1") = {}

(***************************************************************************)
(* The clients table: api/v1/clients.py                                    *)
(***************************************************************************)
\* the ids uuid4() hands out to the clients, per trainer
ClientIdsOf(trainer) == IF trainer = 1 THEN {1} ELSE {3}

ClientIds == ClientIdsOf(1) \cup ClientIdsOf(2)

\* the id of a client as the path of a request spells it
ClientKey(id) == <<"c1", "c2", "c3">>[id]

\* a row of the clients table made of a ClientCreate with a name alone
ClientRow(id, trainer_id, name) ==
    [id |-> id, trainer_id |-> trainer_id, name |-> name, notes |-> <<>>,
     injury_flags |-> <<>>, preferences_json |-> ""]

\* _get_client_or_404
ClientOwned(trainer, id) == {c \in clients : c.id = id /\ c.trainer_id = trainer}

\* the tables an endpoint of another table leaves alone
StoreUnchanged ==
    UNCHANGED <<settingsKey, incoming, prompt, pc, loopOwner, req, calls, ext, gen,
               response, normVars, trainers, recording>>

\* create_client
create_client(trainer, name) ==
    /\ ClientIdsOf(trainer) \ {c.id : c \in clients} # {}
    /\ LET id == CHOOSE k \in ClientIdsOf(trainer) \ {c.id : c \in clients} : TRUE
       IN  /\ clients' = clients \cup {ClientRow(id, trainer, name)}
           /\ Record(Status("create_client", trainer, ClientKey(id), 201))
    /\ UNCHANGED <<exercises, workouts>>

\* list_clients
list_clients(trainer) ==
    /\ Record(Answered("list_clients", trainer, "", 200,
                       {ClientKey(c.id) : c \in {x \in clients : x.trainer_id = trainer}},
                       0, 0))
    /\ UNCHANGED <<clients, exercises, workouts>>

\* get_client
get_client(trainer, id) ==
    /\ Record(IF ClientOwned(trainer, id) = {}
              THEN Status("get_client", trainer, ClientKey(id), 404)
              ELSE Answered("get_client", trainer, ClientKey(id), 200, {ClientKey(id)}, 0, 0))
    /\ UNCHANGED <<clients, exercises, workouts>>

\* update_client with a body that sets the name
update_client(trainer, id, name) ==
    /\ IF ClientOwned(trainer, id) = {}
       THEN /\ clients' = clients
            /\ Record(Status("update_client", trainer, ClientKey(id), 404))
       ELSE /\ clients' = {IF c \in ClientOwned(trainer, id) THEN [c EXCEPT !.name = name]
                           ELSE c : c \in clients}
            /\ Record(Status("update_client", trainer, ClientKey(id), 200))
    /\ UNCHANGED <<exercises, workouts>>

\* delete_client: db.delete(client) blanks the client_id of the workouts of
\* Client.workouts, a nullable column
delete_client(trainer, id) ==
    /\ IF ClientOwned(trainer, id) = {}
       THEN /\ UNCHANGED <<clients, workouts>>
            /\ Record(Status("delete_client", trainer, ClientKey(id), 404))
       ELSE /\ clients' = clients \ ClientOwned(trainer, id)
            /\ workouts' = {IF w.client_id = id THEN [w EXCEPT !.client_id = 0] ELSE w :
                               w \in workouts}
            /\ Record(Status("delete_client", trainer, ClientKey(id), 204))
    /\ UNCHANGED exercises

\* the endpoints of the clients are coroutines without an await
CreateClient(trainer, names) ==
    /\ loopOwner = 0
    /\ \E name \in names : create_client(trainer, name)
    /\ StoreUnchanged

ListClients(trainer) ==
    /\ loopOwner = 0
    /\ list_clients(trainer)
    /\ StoreUnchanged

GetClient(trainer) ==
    /\ loopOwner = 0
    /\ \E id \in ClientIds : get_client(trainer, id)
    /\ StoreUnchanged

UpdateClient(trainer, names) ==
    /\ loopOwner = 0
    /\ \E id \in ClientIds, name \in names : update_client(trainer, id, name)
    /\ StoreUnchanged

DeleteClient(trainer) ==
    /\ loopOwner = 0
    /\ \E id \in ClientIds : delete_client(trainer, id)
    /\ StoreUnchanged

(***************************************************************************)
(* The workouts table: api/v1/workouts.py                                  *)
(***************************************************************************)
\* the ids uuid4() hands out to the workouts, per trainer
WorkoutIdsOf(trainer) == IF trainer = 1 THEN {"w1"} ELSE {"w2"}

WorkoutIds == WorkoutIdsOf(1) \cup WorkoutIdsOf(2)

\* an explicit null in a body
NullText == "<null>"

\* the body of a create or of an update: `fields` are the fields the body
\* sets (model_dump(exclude_unset=True)); client_id 0 is null
WorkoutPayload(fields, title, date, client_id, blocks) ==
    [fields |-> fields, title |-> title, date |-> date, client_id |-> client_id,
     blocks |-> blocks]

\* the dates datetime.fromisoformat accepts, of those the callers send
IsoDates == {"2024-01-01", "2024-02-02"}

\* the exercise ids collected from the sets of the blocks
ExerciseIdsIn(blocks) ==
    UNION {{blocks[b].sets[k] : k \in DOMAIN blocks[b].sets} : b \in DOMAIN blocks}

\* the query of the validation: the exercises of the trainer and the
\* global ones
ValidExercises(trainer, exercise_ids) ==
    {e.id : e \in {x \in exercises :
                      x.id \in exercise_ids /\ (x.trainer_id = trainer \/ x.trainer_id = 0)}}

\* if blocks_data: ... if invalid_exercises: raise HTTPException(400)
InvalidExercises(trainer, blocks) ==
    IF blocks = <<>> THEN {}
    ELSE ExerciseIdsIn(blocks) \ ValidExercises(trainer, ExerciseIdsIn(blocks))

\* the mutant: the flushed statements of a failed request stay
RollbackKeepsFlushed(stored, session) == session

\* get_db closes the session of a request that raised without a commit:
\* what the session flushed is rolled back
Rollback(stored, session) == stored

\* create_workout: the row is flushed, the exercise ids of the blocks are
\* validated, the blocks and sets are added and all is committed; the
\* client_id of the body is stored as it comes
create_workout(trainer, payload) ==
    /\ WorkoutIdsOf(trainer) \ {w.id : w \in workouts} # {}
    /\ LET id == CHOOSE k \in WorkoutIdsOf(trainer) \ {w.id : w \in workouts} : TRUE
           flushed == workouts \cup
                        {WorkoutRow(id, trainer, payload.client_id, payload.title,
                                    payload.date, <<>>)}
           committed == workouts \cup
                        {WorkoutRow(id, trainer, payload.client_id, payload.title,
                                    payload.date, payload.blocks)}
       IN  IF InvalidExercises(trainer, payload.blocks) # {}
           THEN /\ workouts' = Rollback(workouts, flushed)
                /\ Record(Status("create_workout", trainer, id, 400))
           ELSE /\ workouts' = committed
                /\ Record(Status("create_workout", trainer, id, 201))
    /\ UNCHANGED <<clients, exercises>>

\* the mutant: the workout is looked up by its id alone
WorkoutOwnedByAnyone(trainer, id) == {w \in workouts : w.id = id}

\* _get_workout_or_404
WorkoutOwned(trainer, id) == {w \in workouts : w.id = id /\ w.trainer_id = trainer}

\* list_workouts without a filter
list_workouts(trainer) ==
    /\ Record(Answered("list_workouts", trainer, "", 200,
                       {w.id : w \in {x \in workouts : x.trainer_id = trainer}}, 0, 0))
    /\ UNCHANGED <<clients, exercises, workouts>>

\* get_workout
get_workout(trainer, id) ==
    /\ Record(IF WorkoutOwned(trainer, id) = {}
              THEN Status("get_workout", trainer, id, 404)
              ELSE Answered("get_workout", trainer, id, 200, {id}, 0, 0))
    /\ UNCHANGED <<clients, exercises, workouts>>

\* for field, value in update_data.items(): setattr(workout, field, value)
SetMetadata(w, payload) ==
    [w EXCEPT !.title = IF "title" \in payload.fields THEN payload.title ELSE @,
              !.date = IF "date" \in payload.fields THEN payload.date ELSE @,
              !.client_id = IF "client_id" \in payload.fields THEN payload.client_id ELSE @]

\* the rows of the session with row w put for the workout id
Put(rows, id, w) == {IF x.id = id THEN w ELSE x : x \in rows}

\* update_workout: 404; 422 for a date that is no ISO date; the metadata
\* are set; with a blocks list the blocks and sets are deleted and flushed,
\* the exercise ids validated (400) and the blocks of the body added; the
\* commit refuses a null title (500)
update_workout(trainer, id, payload) ==
    /\ IF WorkoutOwned(trainer, id) = {}
       THEN /\ workouts' = workouts
            /\ Record(Status("update_workout", trainer, id, 404))
       ELSE LET workout == CHOOSE w \in WorkoutOwned(trainer, id) : TRUE
                withMetadata == SetMetadata(workout, payload)
                deleted == [withMetadata EXCEPT !.blocks = <<>>]
                replaced == [withMetadata EXCEPT !.blocks = payload.blocks]
            IN  IF "date" \in payload.fields /\ payload.date \notin IsoDates
                THEN /\ workouts' = Rollback(workouts, workouts)
                     /\ Record(Status("update_workout", trainer, id, 422))
                ELSE IF "blocks" \in payload.fields
                        /\ InvalidExercises(trainer, payload.blocks) # {}
                THEN /\ workouts' = Rollback(workouts, Put(workouts, id, deleted))
                     /\ Record(Status("update_workout", trainer, id, 400))
                ELSE IF withMetadata.title = NullText
                THEN /\ workouts' = Rollback(workouts,
                                        Put(workouts, id,
                                            IF "blocks" \in payload.fields THEN replaced
                                            ELSE withMetadata))
                     /\ Record(Status("update_workout", trainer, id, 500))
                ELSE /\ workouts' = Put(workouts, id,
                                        IF "blocks" \in payload.fields THEN replaced
                                        ELSE withMetadata)
                     /\ Record(Status("update_workout", trainer, id, 200))
    /\ UNCHANGED <<clients, exercises>>

\* delete_workout: the sets, the blocks and the workout are deleted
delete_workout(trainer, id) ==
    /\ IF WorkoutOwned(trainer, id) = {}
       THEN /\ workouts' = workouts
            /\ Record(Status("delete_workout", trainer, id, 404))
       ELSE /\ workouts' = workouts \ WorkoutOwned(trainer, id)
            /\ Record(Status("delete_workout", trainer, id, 204))
    /\ UNCHANGED <<clients, exercises>>

\* the endpoints of the workouts are coroutines without an await
CreateWorkout(trainer, payloads) ==
    /\ loopOwner = 0
    /\ \E payload \in payloads : create_workout(trainer, payload)
    /\ StoreUnchanged

ListWorkouts(trainer) ==
    /\ loopOwner = 0
    /\ list_workouts(trainer)
    /\ StoreUnchanged

GetWorkout(trainer) ==
    /\ loopOwner = 0
    /\ \E id \in WorkoutIds : get_workout(trainer, id)
    /\ StoreUnchanged

UpdateWorkout(trainer, payloads) ==
    /\ loopOwner = 0
    /\ \E id \in WorkoutIds, payload \in payloads : update_workout(trainer, id, payload)
    /\ StoreUnchanged

DeleteWorkout(trainer) ==
    /\ loopOwner = 0
    /\ \E id \in WorkoutIds : delete_workout(trainer, id)
    /\ StoreUnchanged

\* the exercises the workouts are built of: one of each trainer and a
\* global one
StoreExercises ==
    InitExercises \cup {ExerciseRow("g1", 0, "Bench", TRUE, "Chest", <<"push", "compound">>)}

\* the blocks the bodies carry: none, one block, two blocks, a block of
\* the other trainer's exercise, a block of an exercise nobody has
BlockLists ==
    { <<>>,
      <<Block("straight", <<"a1">>)>>,
      <<Block("superset", <<"g1", "a1">>), Block("straight", <<>>)>>,
      <<Block("straight", <<"g1">>), Block("circuit", <<"b1">>)>>,
      <<Block("straight", <<"zz">>)>> }

\* the bodies of POST /workouts, every field set: each of the block lists
\* without a client, and a client of the first trainer without blocks
CreatePayloads ==
    {WorkoutPayload({"title", "date", "client_id", "blocks"}, "Push", "2024-01-01", 0,
                    blocks) : blocks \in BlockLists}
    \cup {WorkoutPayload({"title", "date", "client_id", "blocks"}, "Push", "2024-01-01",
                         1, <<>>)}

\* the bodies of PUT /workouts/{id}: a title, a null title, a date, a date
\* that is none, a client, blocks, alone and together
UpdatePayloads ==
    {WorkoutPayload({"title"}, title, "", 0, <<>>) : title \in {"Pull", NullText}}
    \cup {WorkoutPayload({"date"}, "", date, 0, <<>>) : date \in {"2024-02-02", "tomorrow"}}
    \cup {WorkoutPayload({"client_id"}, "", "", client_id, <<>>) : client_id \in {0, 1}}
    \cup {WorkoutPayload({"blocks"}, "", "", 0, blocks) : blocks \in BlockLists}
    \cup {WorkoutPayload({"title", "date", "blocks"}, "Pull", "2024-02-02", 0,
                         <<Block("straight", <<"zz">>)>>),
          WorkoutPayload({"title", "date", "blocks"}, "Pull", "tomorrow", 0,
                         <<Block("straight", <<"g1">>)>>),
          WorkoutPayload({"title", "date", "blocks"}, NullText, "2024-02-02", 0,
                         <<Block("straight", <<"g1">>)>>),
          WorkoutPayload({"title", "date", "blocks"}, "Pull", "2024-02-02", 0,
                         <<Block("straight", <<"g1">>)>>)}

\* a server with its clients and exercises, a workout of each trainer
InitWorkoutsSpec ==
    /\ settingsKey = FALSE
    /\ clients = InitClients
    /\ exercises = StoreExercises
    /\ incoming = {}
    /\ RequestsIdle
    /\ workouts = InitWorkouts
    /\ trainers = InitTrainers
    /\ reply = NoAnswer
    /\ recording = TRUE
    /\ normPc = "off"
    /\ rawSet = NoSet
    /\ setResult = NoSetResult

NextWorkouts ==
    \E trainer \in Trainers :
        \/ CreateWorkout(trainer, CreatePayloads)
        \/ UpdateWorkout(trainer, UpdatePayloads)
        \/ DeleteWorkout(trainer)
        \/ GetWorkout(trainer)
        \/ ListWorkouts(trainer)

SpecWorkouts == InitWorkoutsSpec /\ [][NextWorkouts]_vars

(***************************************************************************)
(* The three tables side by side, every endpoint open to every trainer     *)
(***************************************************************************)
\* a client of each trainer
ScopeClients == {ClientRow(1, 1, "Ann"), ClientRow(3, 2, "Ann")}

\* the bodies of the workouts when the scoping is what is looked at: a
\* title alone
ScopeCreates ==
    {WorkoutPayload({"title", "date", "client_id", "blocks"}, "Pull", "2024-01-01", 0,
                    <<>>)}

ScopeUpdates == {WorkoutPayload({"title"}, "Pull", "", 0, <<>>)}

InitScope ==
    /\ settingsKey = FALSE
    /\ clients = ScopeClients
    /\ exercises = StoreExercises
    /\ incoming = {}
    /\ RequestsIdle
    /\ workouts = InitWorkouts
    /\ trainers = InitTrainers
    /\ reply = NoAnswer
    /\ recording = TRUE
    /\ normPc = "off"
    /\ rawSet = NoSet
    /\ setResult = NoSetResult

NextScope ==
    \E trainer \in Trainers :
        \/ CreateClient(trainer, {"Ann"})
        \/ ListClients(trainer)
        \/ GetClient(trainer)
        \/ UpdateClient(trainer, {"Zed"})
        \/ DeleteClient(trainer)
        \/ CreateExercise(trainer, <<"Curl">>)
        \/ ListExercises(trainer)
        \/ GetExercise(trainer)
        \/ UpdateExercise(trainer, <<"Curl">>)
        \/ DeleteExercise(trainer)
        \/ CreateWorkout(trainer, ScopeCreates)
        \/ ListWorkouts(trainer)
        \/ GetWorkout(trainer)
        \/ UpdateWorkout(trainer, ScopeUpdates)
        \/ DeleteWorkout(trainer)

SpecScope == InitScope /\ [][NextScope]_vars

(***************************************************************************)
(* C25: seeding is idempotent and de-duplicating                           *)
(***************************************************************************)
SeedOps == {"seed_default_exercises", "seed_global_exercises"}

\* every default exercise the seeding can store has a row of the owner
AllExist(owner, rows) == Missing(owner, rows) = {}

\* the rows of one owner whose names are equal when case is ignored
SameNameRows(rows) ==
    {pair \in rows \X rows :
        /\ pair[1] # pair[2]
        /\ pair[1].trainer_id = pair[2].trainer_id
        /\ ilike(pair[1].name, pair[2].name)}

\* C25: a seeding call adds no pair of rows of one owner whose names are
\* equal case-insensitively, reports counters with created + skipped equal
\* to the number of default entries, and when every default exercise
\* already exists stores nothing and reports created=0, all skipped.
C25_SeedingIdempotent ==
    [][ (reply'.op \in SeedOps /\ reply' # reply) =>
            /\ SameNameRows(exercises') \subseteq SameNameRows(exercises)
            /\ reply'.status = 200
            /\ reply'.created + reply'.skipped = Len(DEFAULT_EXERCISES)
            /\ AllExist(reply'.trainer, exercises) =>
                   /\ exercises' = exercises
                   /\ reply'.created = 0
                   /\ reply'.skipped = Len(DEFAULT_EXERCISES) ]_vars

\* what holds of the calls that return: the same, for the seedings that do
\* not raise
C25_SeedingIdempotentWhenReturned ==
    [][ (reply'.op \in SeedOps /\ reply' # reply) =>
            /\ SameNameRows(exercises') \subseteq SameNameRows(exercises)
            /\ reply'.status = 200 =>
                   /\ reply'.created + reply'.skipped = Len(DEFAULT_EXERCISES)
                   /\ AllExist(reply'.trainer, exercises) =>
                          /\ exercises' = exercises
                          /\ reply'.created = 0
                          /\ reply'.skipped = Len(DEFAULT_EXERCISES)
            /\ reply'.status # 200 =>
                   /\ exercises' = exercises
                   /\ Cardinality({e \in exercises : e.trainer_id = reply'.trainer
                                      /\ ilike(e.name, "Bench")}) > 1 ]_vars

\* a trainer who has "Bench" and "bench" was answered 500 by the seeding
C25_SeedRaised ==
    /\ reply.op = "seed_default_exercises"
    /\ reply.status = 500
    /\ \E e \in exercises, f \in exercises :
          e.trainer_id = 1 /\ f.trainer_id = 1 /\ e.name = "Bench" /\ f.name = "bench"

(***************************************************************************)
(* C26: update_workout is transactional                                    *)
(***************************************************************************)
\* the stored workout of an id
Stored(rows, id) == CHOOSE w \in rows : w.id = id

C26_Replaced ==
    /\ reply.op = "update_workout"
    /\ reply.status = 200
    /\ reply.target = "w1"
    /\ Stored(workouts, "w1").blocks =
           <<Block("superset", <<"g1", "a1">>), Block("straight", <<>>)>>

(***************************************************************************)
(* C28: a stored workout references only what its trainer may use          *)
(***************************************************************************)
\* the client of the workout, when set, is a client of its trainer
ClientOfTrainer(w) ==
    w.client_id # 0 => \E c \in clients : c.id = w.client_id /\ c.trainer_id = w.trainer_id

\* every set of the workout references an exercise of its trainer or a
\* global one
ExercisesOfTrainer(w) ==
    \A ex \in ExerciseIdsIn(w.blocks) :
        \E e \in exercises : e.id = ex /\ (e.trainer_id = w.trainer_id \/ e.trainer_id = 0)

\* C28: every stored workout's client_id, when set, is the id of a client
\* of the workout's trainer, and each of its sets references an exercise
\* the trainer owns or a global one.
C28_WorkoutReferencesOwn ==
    \A w \in workouts : ClientOfTrainer(w) /\ ExercisesOfTrainer(w)

\* what holds: the exercises of the sets are the trainer's or global, and a
\* request refused for its exercises (400) stores nothing
C28_WorkoutExercisesOwn ==
    \A w \in workouts : ExercisesOfTrainer(w)

\* the second trainer stored a workout for a client of the first
C28_ForeignClientStored ==
    \E w \in workouts : w.trainer_id = 2 /\ w.client_id = 1

(***************************************************************************)
(* C27: the operations are scoped to the current trainer                   *)
(***************************************************************************)
ByIdOps ==
    {"get_client", "update_client", "delete_client",
     "get_exercise", "update_exercise", "delete_exercise",
     "get_workout", "update_workout", "delete_workout"}

\* the trainers of the rows the id of a request names, in the table the
\* operation is of
OwnersOf(op, target) ==
    IF op \in {"get_client", "update_client", "delete_client"}
    THEN {c.trainer_id : c \in {x \in clients : ClientKey(x.id) = target}}
    ELSE IF op \in {"get_exercise", "update_exercise", "delete_exercise"}
    THEN {e.trainer_id : e \in {x \in exercises : x.id = target}}
    ELSE {w.trainer_id : w \in {x \in workouts : x.id = target}}

\* the ids of the rows of a trainer after the request, in the table the
\* list operation is of
ListedOf(op, trainer) ==
    IF op = "list_clients"
    THEN {ClientKey(c.id) : c \in {x \in clients' : x.trainer_id = trainer}}
    ELSE IF op = "list_exercises"
    THEN {e.id : e \in {x \in exercises' : x.trainer_id = trainer}}
    ELSE {w.id : w \in {x \in workouts' : x.trainer_id = trainer}}

\* C27: a get, update or delete by id of a client, exercise or workout
\* owned by a different trainer is answered 404 and leaves the resource (and
\* every other row) unchanged, and a list operation returns the resources
\* whose trainer_id is the current trainer's and no other.
C27_TrainerScoped ==
    [][ /\ (/\ reply'.op \in ByIdOps
            /\ OwnersOf(reply'.op, reply'.target) \cap (Trainers \ {reply'.trainer}) # {}) =>
               /\ reply'.status = 404
               /\ UNCHANGED <<clients, exercises, workouts>>
        /\ reply'.op \in {"list_clients", "list_exercises", "list_workouts"} =>
               reply'.items = ListedOf(reply'.op, reply'.trainer) ]_vars

\* the second trainer asked to delete the workout of the first and was
\* answered 404, the workout still stored
C27_Witness ==
    /\ reply.op = "delete_workout"
    /\ reply.trainer = 2
    /\ reply.target = "w1"
    /\ reply.status = 404
    /\ \E w \in workouts : w.id = "w1" /\ w.trainer_id = 1

====
